---- MODULE Spec2Model ----
(***************************************************************************)
(* Kinship matching engines of codechallenge2025: the three match_single   *)
(* implementations (participant_solution, AmiraliShadi, mhngar), their     *)
(* process-wide caches and the pure scoring functions they are built from. *)
(*                                                                         *)
(* Representation.                                                         *)
(*  - A cell of a DataFrame is either pandas' NaN or a text.  A text is    *)
(*    carried as the sequence of tokens str.split(",") yields for it, so   *)
(*    "13,14" is <<"13","14">>, "-" is <<"-">> and "" is <<"">>.           *)
(*  - A float allele is carried in tenths of a repeat: 9.3 is 93.          *)
(*  - A frequency is carried in millionths, a likelihood ratio in          *)
(*    thousandths, and a log10 likelihood in thousandths (milli-log10).    *)
(*  - A function of the code is written as a chain of operators, each      *)
(*    taking the values computed so far as parameters, in the order the    *)
(*    code computes them.                                                  *)
(***************************************************************************)
EXTENDS Integers, Sequences, FiniteSets, Bags, TLC

VARIABLES
    heap,                   \* handle -> the DataFrame object living there
    hashSeed,               \* the process's string-hash seed (set order)
    cache_db_hash,          \* mhngar: _cache_db_hash
    cache_allele_freqs,     \* mhngar: _cache_allele_freqs
    cache_inverted_index,   \* mhngar: _cache_inverted_index
    DB_CACHE,               \* AmiraliShadi: _DB_CACHE
    call,                   \* the last completed call and what it returned
    threads                 \* concurrent calls in flight: position and locals

vars == <<heap, hashSeed, cache_db_hash, cache_allele_freqs,
          cache_inverted_index, DB_CACHE, call, threads>>

(***************************************************************************)
(* Arithmetic helpers.                                                     *)
(***************************************************************************)
Max2(a, b) == IF a >= b THEN a ELSE b

Min2(a, b) == IF a <= b THEN a ELSE b

Abs(a) == IF a < 0 THEN -a ELSE a

\* 100000 * math.log10 of a positive rational <<n, d>>.
Log10c(x) ==
    LET Log2Scaled(n, a, d, b) ==
            LET Log2Mantissa(t, e) ==
                    LET \* 100000 * log10 of 2^e * (1 + (64 * i + r / 16) / 4096): the table's log2
                        \* of the mantissa, interpolated, plus the exponent, times log10(2).
                        Log2Interp(table, i, r, ex) ==
                            ex * 30103 + ((table[i + 1] + ((table[i + 2] - table[i + 1]) * r) \div 1024) * 30103) \div 65536

                        \* 65536 * log2(1 + i/64) for i = 0..64, rounded (entry i + 1).
                        Log2Table ==
                            <<0, 1466, 2909, 4331, 5732, 7112, 8473, 9814,
                              11136, 12440, 13727, 14996, 16248, 17484, 18704, 19909,
                              21098, 22272, 23433, 24579, 25711, 26830, 27936, 29029,
                              30109, 31178, 32234, 33279, 34312, 35334, 36346, 37346,
                              38336, 39316, 40286, 41246, 42196, 43137, 44068, 44990,
                              45904, 46809, 47705, 48593, 49472, 50344, 51207, 52063,
                              52911, 53751, 54584, 55410, 56229, 57040, 57845, 58643,
                              59434, 60219, 60997, 61769, 62534, 63294, 64047, 64794,
                              65536>>
                    IN  Log2Interp(Log2Table, (t[1] - 65536) \div 1024, (t[1] - 65536) % 1024, t[2] + e)

                \* <<y, e>> with n/d = (y / 65536) * 2^e and 65536 <= y < 131072, for
                \* 0 < n, d < 2^14.
                Log2Norm(p, q) ==
                    IF p >= q
                    THEN (LET up == CHOOSE k \in 0..14 : p \div 2^k >= q /\ p \div 2^(k + 1) < q
                          IN  <<(p * 65536) \div (q * 2^up), up>>)
                    ELSE (LET down == CHOOSE k \in 1..14 : p * 2^k >= q /\ p * 2^(k - 1) < q
                          IN  <<(p * 2^down * 65536) \div q, -down>>)
            IN  Log2Mantissa(Log2Norm(n \div 2^a, d \div 2^b), a - b)

        \* The least k with n / 2^k < 2^14.
        Log2Shift(n) == CHOOSE k \in 0..18 : n \div 2^k < 16384 /\ (k = 0 \/ n \div 2^(k - 1) >= 16384)
    IN  Log2Scaled(x[1], Log2Shift(x[1]), x[2], Log2Shift(x[2]))

\* Rounding of a value in 1/100000 to thousandths.
RoundMilli(v) == (v + 50) \div 100

\* math.log10 in milli-log10 units, rounded.
Log10m(x) == RoundMilli(Log10c(x))

\* floor(sqrt(n)) for 0 <= n < 2^31.
ISqrt(n) ==
    LET \* The root inside the block of 216 roots starting at 216 * h.
        ISqrtIn(h) ==
            CHOOSE r \in (h * 216)..(h * 216 + 215) : r * r <= n /\ (r >= 46340 \/ (r + 1) * (r + 1) > n)
    IN  ISqrtIn(CHOOSE k \in 0..214 :
                       (k + 1) * 216 > 46340 \/ ((k + 1) * 216) * ((k + 1) * 216) > n)

(***************************************************************************)
(* Sequence and dict helpers.                                              *)
(***************************************************************************)
Range(s) == {s[i] : i \in DOMAIN s}

\* The sum of the integer values of a sequence or a dict: the positive ones
\* counted as a bag, less the negative ones.
SumSeq(f) ==
    BagCardinality([i \in {j \in DOMAIN f : f[j] > 0} |-> f[i]])
    - BagCardinality([i \in {j \in DOMAIN f : f[j] < 0} |-> -f[i]])

MinOver(S, F) == CHOOSE m \in {F[a] : a \in S} : \A a \in S : F[a] >= m

\* The elements of a set of integers in ascending order.
AscSeq(S) ==
    [k \in 1..Cardinality(S) |-> CHOOSE x \in S : Cardinality({y \in S : y < x}) = k - 1]

FlattenSeq(ss) ==
    LET \* The concatenation of the sequences of ss; lens[i] is Len(ss[i]).
        FlattenBy(lens) ==
            [p \in 1..SumSeq(lens) |->
                LET i == CHOOSE j \in DOMAIN ss :
                             /\ SumSeq([m \in 1..(j - 1) |-> lens[m]]) < p
                             /\ p <= SumSeq([m \in 1..j |-> lens[m]])
                IN  ss[i][p - SumSeq([m \in 1..(i - 1) |-> lens[m]])]]
    IN  FlattenBy([j \in DOMAIN ss |-> Len(ss[j])])

Reverse(s) == [i \in 1..Len(s) |-> s[Len(s) + 1 - i]]

\* sorted(..., key=..., reverse=True) and list.sort(key=..., reverse=True):
\* stable, so elements with equal keys keep their order.  keys[i] is the key
\* of element i; element i lands after the elements with a greater key and
\* the earlier elements with an equal key.
SortDesc(s, keys) ==
    [k \in 1..Len(s) |->
        s[CHOOSE i \in 1..Len(s) :
              Cardinality({j \in 1..Len(s) :
                  keys[j] > keys[i] \/ (keys[j] = keys[i] /\ j < i)}) = k - 1]]

\* s[:n]
Prefix(s, n) == SubSeq(s, 1, Min2(n, Len(s)))

\* d.get(k, default)
DictGet(d, k, default) == IF k \in DOMAIN d THEN d[k] ELSE default

\* {} as a dict.
EmptyDict == [k \in {} |-> 0]

\* list(...) and dict(...): the sequence, or the dict, with every value
\* computed once.
List(s) == s \o <<>>

Dict(f) == f @@ <<>>

\* Optional values: None and a value that is set.
None == <<>>

Some(v) == <<v>>

(***************************************************************************)
(* Texts.  The tokens the model's cells are written with, and what         *)
(* str.strip and float make of each.                                       *)
(***************************************************************************)
\* float(token), in tenths; a token outside the table raises ValueError.
FloatTable ==
    ("8" :> 80) @@ ("9" :> 90) @@ ("9.3" :> 93) @@ ("10" :> 100) @@
    ("10.3" :> 103) @@ ("11" :> 110) @@ ("12" :> 120) @@ ("13" :> 130) @@
    ("14" :> 140) @@ ("15" :> 150) @@ ("16" :> 160) @@ ("17" :> 170) @@
    ("31.2" :> 312) @@ ("32.2" :> 322) @@
    ("13.0" :> 130) @@ (" 13" :> 130) @@ ("14 " :> 140)

Strip(t) ==
    LET \* str.strip of a token that has surrounding whitespace.
        StripTable == (" 13" :> "13") @@ ("14 " :> "14") @@ (" " :> "")
    IN  DictGet(StripTable, t, t)

\* The tokens str(float) writes after rstrip('0').rstrip('.'), by value.
CanonicalTokens == {"8", "9", "9.3", "10", "10.3", "11", "12", "13", "14", "15", "16", "17",
                    "31.2", "32.2"}

\* IEEE doubles: the values v (in tenths) of the table for which
\* float(v + 1.0) - float(v) is not 1.0 (32.2 - 31.2 is 1.0000000000000036).
InexactSteps == {312}

\* The <<value, offset>> of the table for which value + offset is not the
\* double of a decimal (32.2 - 1.0 is 31.200000000000003).
InexactSums == {<<322, -10>>}

\* A fixed total order of the tokens (their rank), to order a set of strings.
TokenOrder == <<"8", "9", "9.3", "10", "10.3", "11", "12", "13", "13.0", " 13",
                "14", "14 ", "15", "16", "17", "31.2", "32.2", "-", "", " ", "x", "abc">>

StrSetOrder(S, seed) ==
    LET \* Iteration order of a set of strings.  CPython orders it by the strings'
        \* hashes, which depend on the process's hash seed: one order per seed.
        SeedOrder(s) == IF seed = 0 THEN s ELSE Reverse(s)

        RankedAsc(rank) ==
            [k \in 1..Cardinality(S) |->
                CHOOSE x \in S : Cardinality({y \in S : rank[y] < rank[x]}) = k - 1]

        \* The rank of each string of S.
        TokRanks(order) == [t \in S |-> CHOOSE i \in DOMAIN order : order[i] = t]
    IN  SeedOrder(RankedAsc(TokRanks(TokenOrder)))

\* Cells: NaN, or the text whose split(",") is toks.
NaN == [nan |-> TRUE, toks |-> <<>>]

Text(toks) == [nan |-> FALSE, toks |-> toks]

\* DataFrame columns and rows.
LocusColumns(df) == SelectSeq(df.columns, LAMBDA col : col # "PersonID")

NRows(df) == Len(df.rows)

\* database_df['PersonID'].values, indexed from 0.
PersonIds(df) == [idx \in 0..(NRows(df) - 1) |-> df.rows[idx + 1].PersonID]

\* query_profile.get(locus, default)
QueryGet(query_profile, locus, default) == DictGet(query_profile, locus, default)

(***************************************************************************)
(* mhngar: parsing, frequency table, inverted index.                       *)
(***************************************************************************)
mh_parse_alleles(allele_str) ==
    IF allele_str.nan \/ allele_str.toks = <<"-">> \/ allele_str.toks = <<"">>
    THEN {}
    ELSE {Strip(a) : a \in Range(allele_str.toks)} \ {""}

\* The rows (0-based) carrying allele at locus.
mh_rows_with(database_df, locus, allele) ==
    {idx \in 0..(NRows(database_df) - 1) :
        allele \in mh_parse_alleles(database_df.rows[idx + 1][locus])}

mh_alleles_at(database_df, locus) ==
    UNION {mh_parse_alleles(database_df.rows[i][locus]) : i \in 1..NRows(database_df)}

\* The locus columns where some row carries an allele.
mh_loci_seen(database_df) ==
    {l \in Range(LocusColumns(database_df)) : mh_alleles_at(database_df, l) # {}}

\* {locus: {allele: count / total}}, with a key only for a locus where some
\* allele was counted; a frequency is carried in millionths.
compute_allele_frequencies(database_df) ==
    LET \* total_alleles[locus]
        mh_total_alleles(locus) ==
            SumSeq([i \in 1..NRows(database_df) |->
                       Cardinality(mh_parse_alleles(database_df.rows[i][locus]))])
    IN  [l \in mh_loci_seen(database_df) |->
            [a \in mh_alleles_at(database_df, l) |->
                (Cardinality(mh_rows_with(database_df, l, a)) * 1000000)
                    \div mh_total_alleles(l)]]

\* {locus: {allele: set of row indices}}: a defaultdict of defaultdicts, with
\* a key only for a locus (an allele) that was written.
build_inverted_index(database_df) ==
    [l \in mh_loci_seen(database_df) |->
        [a \in mh_alleles_at(database_df, l) |-> mh_rows_with(database_df, l, a)]]

\* hashlib.md5(pd.util.hash_pandas_object(database_df).values).hexdigest():
\* one hash per row, over the row's position and its values (the column
\* names are not hashed); the digest is taken as free of collisions.
Fingerprint(database_df) ==
    [i \in 1..NRows(database_df) |->
        [j \in 1..Len(database_df.columns) |-> database_df.rows[i][database_df.columns[j]]]]

\* float('inf'), above every allele value.
Inf == 1000000

\* The float of an allele string (in tenths), or inf when float() raises.
allele_to_numeric(allele) == DictGet(FloatTable, allele, Inf)

\* abs(num1 - num2) == 1.0 replaced by num1 - num2 == 1.0: only a step up
\* from the second allele to the first counts.
check_mutation_upward(allele1, allele2) ==
    LET mh_one_step(num1, num2) ==
            IF num1 = Inf \/ num2 = Inf THEN FALSE
            ELSE num1 - num2 = 10 /\ num2 \notin InexactSteps
    IN  mh_one_step(allele_to_numeric(allele1), allele_to_numeric(allele2))

check_mutation(allele1, allele2) ==
    LET \* abs(num1 - num2) == 1.0, for the floats of the two strings
        mh_one_step(num1, num2) ==
            IF num1 = Inf \/ num2 = Inf THEN FALSE
            ELSE Abs(num1 - num2) = 10 /\ Min2(num1, num2) \notin InexactSteps
    IN  mh_one_step(allele_to_numeric(allele1), allele_to_numeric(allele2))

(***************************************************************************)
(* mhngar: the locus comparator and the bidirectional aggregate.           *)
(***************************************************************************)
\* math.log10(1e-6), the exclusion contribution and the mutation floor.
LogExclusion == -6000

\* max(allele_freqs.get(allele, 0.0001), 0.0001), in millionths
mh_freq(allele_freqs, allele) == Max2(DictGet(allele_freqs, allele, 100), 100)

\* The branch of exact matches: lr[a] = p_from_parent / freq per matching
\* allele, in thousandths.
mh_consistent(child_alleles, exact_matches, lr) ==
    LET \* math.log10(max(combined_lr, 1.0)): combined_lr is math.sqrt(total_lr)
        \* when several alleles match and the child has several (the square root
        \* halves the logarithm), best_single_lr otherwise.
        mh_log_combined(several, total_lr, best_single_lr) ==
            IF several THEN Max2(RoundMilli(Log10c(<<total_lr, 1000>>) \div 2), 0)
            ELSE Max2(Log10m(<<best_single_lr, 1000>>), 0)

        MaxOver(S, F) == CHOOSE m \in {F[a] : a \in S} : \A a \in S : F[a] <= m
    IN  <<mh_log_combined(Cardinality(exact_matches) > 1 /\ Cardinality(child_alleles) > 1,
                          SumSeq(lr), MaxOver(exact_matches, lr)),
          "consistent">>

\* The branch without exact match: pairs are the (child, parent) alleles one
\* step apart, rate the effective mutation rate in millionths; the best
\* mutation_lr is the rate over the least child_freq.
mh_mutation(pairs, rate, allele_freqs) ==
    IF pairs # {}
    THEN <<Max2(Log10m(<<rate, MinOver(pairs, [cp \in pairs |-> mh_freq(allele_freqs, cp[1])])>>),
                LogExclusion),
           "mutation">>
    ELSE <<LogExclusion, "exclusion">>

\* The comparator with the one-repeat test ahead of the shared-allele test.
compute_locus_lr_mutation_first(child_alleles, parent_alleles, allele_freqs) ==
    IF child_alleles = {} \/ parent_alleles = {} THEN <<0, "missing">>
    ELSE IF \E cp \in child_alleles \X parent_alleles : check_mutation(cp[1], cp[2])
    THEN mh_mutation({cp \in child_alleles \X parent_alleles : check_mutation(cp[1], cp[2])},
                     IF Cardinality(parent_alleles) = 1 THEN 2600 ELSE 3200,
                     allele_freqs)
    ELSE IF child_alleles \cap parent_alleles # {}
    THEN mh_consistent(child_alleles, child_alleles \cap parent_alleles,
             [a \in child_alleles \cap parent_alleles |->
                 ((IF Cardinality(parent_alleles) = 1 THEN 1000 ELSE 500) * 1000000)
                     \div mh_freq(allele_freqs, a)])
    ELSE <<LogExclusion, "exclusion">>

\* The comparator with a missing locus scored as an exclusion.
compute_locus_lr_no_missing(child_alleles, parent_alleles, allele_freqs) ==
    IF child_alleles = {} \/ parent_alleles = {} THEN <<LogExclusion, "exclusion">>
    ELSE IF child_alleles \cap parent_alleles # {}
    THEN mh_consistent(child_alleles, child_alleles \cap parent_alleles,
             [a \in child_alleles \cap parent_alleles |->
                 ((IF Cardinality(parent_alleles) = 1 THEN 1000 ELSE 500) * 1000000)
                     \div mh_freq(allele_freqs, a)])
    ELSE mh_mutation({cp \in child_alleles \X parent_alleles : check_mutation(cp[1], cp[2])},
                     IF Cardinality(parent_alleles) = 1 THEN 2600 ELSE 3200,
                     allele_freqs)

\* <<log_LR, status>>
compute_locus_lr(child_alleles, parent_alleles, allele_freqs) ==
    IF child_alleles = {} \/ parent_alleles = {} THEN <<0, "missing">>
    ELSE IF child_alleles \cap parent_alleles # {}
    THEN mh_consistent(child_alleles, child_alleles \cap parent_alleles,
             [a \in child_alleles \cap parent_alleles |->
                 ((IF Cardinality(parent_alleles) = 1 THEN 1000 ELSE 500) * 1000000)
                     \div mh_freq(allele_freqs, a)])
    ELSE mh_mutation({cp \in child_alleles \X parent_alleles : check_mutation(cp[1], cp[2])},
                     IF Cardinality(parent_alleles) = 1 THEN 2600 ELSE 3200,
                     allele_freqs)

\* allele_freqs.get(locus, {})
mh_locus_freqs(allele_freqs, locus) == DictGet(allele_freqs, locus, EmptyDict)

\* The choice of lines 290-323 with the last comparison turned round: the
\* orientation of the lower total is returned.
mh_choose_role_lower(child, parent, log_lr_child, log_lr_parent) ==
    IF Abs(log_lr_child - log_lr_parent) < 2500 /\ child.exclusion < parent.exclusion
    THEN "candidate_parent"
    ELSE IF Abs(log_lr_child - log_lr_parent) < 2500 /\ parent.exclusion < child.exclusion
    THEN "candidate_child"
    ELSE IF Abs(log_lr_child - log_lr_parent) < 2500 /\ child.consistent > parent.consistent
    THEN "candidate_parent"
    ELSE IF Abs(log_lr_child - log_lr_parent) < 2500 /\ parent.consistent > child.consistent
    THEN "candidate_child"
    ELSE IF Abs(log_lr_child - log_lr_parent) < 2500 /\ child.mutated < parent.mutated
    THEN "candidate_parent"
    ELSE IF Abs(log_lr_child - log_lr_parent) < 2500 /\ parent.mutated < child.mutated
    THEN "candidate_child"
    ELSE IF log_lr_child >= log_lr_parent THEN "candidate_child"
    ELSE "candidate_parent"

\* Which orientation compute_clr_bidirectional returns: "candidate_parent"
\* (the query as child) or "candidate_child"; child and parent hold the
\* counts of the two directions, log_lr_child and log_lr_parent the totals
\* after the penalty.
mh_choose_role(child, parent, log_lr_child, log_lr_parent) ==
    IF Abs(log_lr_child - log_lr_parent) < 2500 /\ child.exclusion < parent.exclusion
    THEN "candidate_parent"
    ELSE IF Abs(log_lr_child - log_lr_parent) < 2500 /\ parent.exclusion < child.exclusion
    THEN "candidate_child"
    ELSE IF Abs(log_lr_child - log_lr_parent) < 2500 /\ child.consistent > parent.consistent
    THEN "candidate_parent"
    ELSE IF Abs(log_lr_child - log_lr_parent) < 2500 /\ parent.consistent > child.consistent
    THEN "candidate_child"
    ELSE IF Abs(log_lr_child - log_lr_parent) < 2500 /\ child.mutated < parent.mutated
    THEN "candidate_parent"
    ELSE IF Abs(log_lr_child - log_lr_parent) < 2500 /\ parent.mutated < child.mutated
    THEN "candidate_child"
    ELSE IF log_lr_child >= log_lr_parent THEN "candidate_parent"
    ELSE "candidate_child"

mh_clr_of(loci) ==
    LET mh_clr_penalised(child, parent, both_match) ==
            LET mh_clr_choose(penalty) ==
                    LET \* The return of compute_clr_bidirectional once the role is chosen.
                        mh_clr_result(role) ==
                            IF role = "candidate_parent"
                            THEN [clr |-> child.log - penalty, consistent |-> child.consistent,
                                  mutated |-> child.mutated, missing |-> child.missing, role |-> role]
                            ELSE [clr |-> parent.log - penalty, consistent |-> parent.consistent,
                                  mutated |-> parent.mutated, missing |-> parent.missing, role |-> role]
                    IN  mh_clr_result(mh_choose_role(child, parent, child.log - penalty, parent.log - penalty))

                \* The sibling penalty in milli-log10 units: min(3.8, (ratio - 0.16) * 20.0)
                \* when more than 5 loci are non-missing and ratio = both_match /
                \* non_missing exceeds 0.16; otherwise nothing is subtracted.
                mh_sibling_penalty(non_missing_loci) ==
                    IF non_missing_loci > 5 /\ 100 * both_match > 16 * non_missing_loci
                    THEN Min2(3800, (20000 * both_match) \div non_missing_loci - 3200)
                    ELSE 0
            IN  mh_clr_choose(mh_sibling_penalty(child.consistent + child.mutated + child.exclusion))

        \* The sums and counts of one direction over the loci: r[i] is the locus'
        \* <<log_LR, status>>.
        mh_tally(r) ==
            [log |-> SumSeq([i \in DOMAIN r |-> r[i][1]]),
             consistent |-> Cardinality({i \in DOMAIN r : r[i][2] = "consistent"}),
             mutated |-> Cardinality({i \in DOMAIN r : r[i][2] = "mutation"}),
             missing |-> Cardinality({i \in DOMAIN r : r[i][2] = "missing"}),
             exclusion |-> Cardinality({i \in DOMAIN r : r[i][2] = "exclusion"})]
    IN  mh_clr_penalised(mh_tally([i \in DOMAIN loci |-> loci[i].child]),
                         mh_tally([i \in DOMAIN loci |-> loci[i].parent]),
                         Cardinality({i \in DOMAIN loci : loci[i].both}))

\* [clr, consistent, mutated, missing, role], clr as 1000*log10 of
\* 10.0 ** log_lr.
compute_clr_bidirectional(query_profile, candidate_row, allele_freqs, locus_columns) ==
    LET \* What the loop computes at one locus: the two directions and whether both
        \* alleles match.
        mh_locus_pair(query_alleles, candidate_alleles, locus_freqs) ==
            [child  |-> compute_locus_lr(query_alleles, candidate_alleles, locus_freqs),
             parent |-> compute_locus_lr(candidate_alleles, query_alleles, locus_freqs),
             both   |-> Cardinality(query_alleles) = 2 /\ Cardinality(candidate_alleles) = 2
                        /\ query_alleles = candidate_alleles]
    IN  mh_clr_of([i \in DOMAIN locus_columns |->
            mh_locus_pair(mh_parse_alleles(QueryGet(query_profile, locus_columns[i], Text(<<"">>))),
                          mh_parse_alleles(candidate_row[locus_columns[i]]),
                          mh_locus_freqs(allele_freqs, locus_columns[i]))])

(***************************************************************************)
(* mhngar: the candidate prefilter.                                        *)
(***************************************************************************)

\* inverted_index[locus] read without its side effect.
mh_index_at(inverted_index, locus) == DictGet(inverted_index, locus, EmptyDict)

\* The rows visited for one query allele at one locus, in order.
mh_allele_hits(at, locus_freqs, allele) ==
    LET \* One visit per row of rows, in order.
        mh_hits_of(rows, weight, exact, rare) ==
            [k \in 1..Len(rows) |-> [idx |-> rows[k], weight |-> weight, exact |-> exact, rare |-> rare]]

        \* min(-math.log10(freq), 6.0), in thousandths
        mh_base_weight(freq) == Min2(-Log10m(<<freq, 1000000>>), 6000)

        \* max(allele_freqs.get(locus, {}).get(allele, 0.001), 0.0001), in millionths
        mh_prefilter_freq(a) == Max2(DictGet(locus_freqs, a, 1000), 100)

        \* Strategy 2: offsets -1.0 then 1.0, unless the allele has no float.
        mh_mut_pair(allele_num) ==
            LET \* Strategy 2, one offset: the rows carrying mut_allele.
                mh_mut_hits(mut_allele) ==
                    IF mut_allele \in DOMAIN at
                    THEN mh_hits_of(AscSeq(at[mut_allele]),
                                    (65 * mh_base_weight(mh_prefilter_freq(mut_allele))) \div 100,
                                    FALSE, FALSE)
                    ELSE <<>>

                \* str(allele_num + offset).rstrip('0').rstrip('.'): the canonical token of
                \* a value, or a token no cell holds.
                mh_mut_allele(offset) ==
                    LET mh_token_in(S) == IF S = {} THEN "?" ELSE CHOOSE t \in S : TRUE
                    IN  IF <<allele_num, offset>> \in InexactSums THEN "?"
                        ELSE mh_token_in({t \in CanonicalTokens : FloatTable[t] = allele_num + offset})
            IN  IF allele_num = Inf THEN <<>>
                ELSE mh_mut_hits(mh_mut_allele(-10))
                     \o mh_mut_hits(mh_mut_allele(10))

        \* Strategy 1: the rows carrying the query allele itself.  A set of small
        \* ints iterates in ascending order.
        mh_exact_hits(freq) ==
            LET \* base_weight * 1.4 if is_rare else base_weight
                mh_exact_weight(base_weight, is_rare) ==
                    IF is_rare THEN (base_weight * 14) \div 10 ELSE base_weight
            IN  IF allele \in DOMAIN at
                THEN mh_hits_of(AscSeq(at[allele]), mh_exact_weight(mh_base_weight(freq), freq < 50000),
                                TRUE, freq < 50000)
                ELSE <<>>
    IN  mh_exact_hits(mh_prefilter_freq(allele))
        \o mh_mut_pair(allele_to_numeric(allele))

\* The rows visited at each locus column, in the order of the loop.
mh_locus_hits(query_profile, locus_columns, inverted_index, allele_freqs, seed) ==
    LET mh_alleles_hits(at, locus_freqs, alleles) ==
            FlattenSeq([k \in 1..Len(alleles) |-> mh_allele_hits(at, locus_freqs, alleles[k])])
    IN  [i \in 1..Len(locus_columns) |->
            mh_alleles_hits(mh_index_at(inverted_index, locus_columns[i]),
                mh_locus_freqs(allele_freqs, locus_columns[i]),
                StrSetOrder(mh_parse_alleles(QueryGet(query_profile, locus_columns[i], Text(<<"">>))),
                            seed))]

\* The visits that pass person_ids[idx] != query_id, folded.
mh_score_fold(hits, person_ids, query_id) ==
    LET mh_fold_kept(kept) ==
            LET mh_fold_by(idxs) ==
                    LET \* candidate_scores / candidate_match_counts / candidate_rare_matches over
                        \* the visits kept; first[i] is the position of row i's first visit, and
                        \* order is the insertion order of candidate_scores.  A mutation visit
                        \* counts as a match only when the count is still 0, that is when it is the
                        \* row's first visit.
                        mh_fold_first(first) ==
                            [order |-> List([n \in 1..Cardinality(idxs) |->
                                          CHOOSE i \in idxs : Cardinality({j \in idxs : first[j] < first[i]}) = n - 1]),
                             score |-> Dict([i \in idxs |->
                                          SumSeq([k \in {m \in DOMAIN kept : kept[m].idx = i} |-> kept[k].weight])]),
                             count |-> Dict([i \in idxs |->
                                          Cardinality({k \in DOMAIN kept : kept[k].idx = i /\ kept[k].exact})
                                          + (IF kept[first[i]].exact THEN 0 ELSE 1)]),
                             rare  |-> Dict([i \in idxs |->
                                          Cardinality({k \in DOMAIN kept :
                                              kept[k].idx = i /\ kept[k].exact /\ kept[k].rare})])]
                    IN  mh_fold_first(Dict([i \in idxs |-> CHOOSE k \in DOMAIN kept :
                                                     kept[k].idx = i /\ \A j \in 1..(k - 1) : kept[j].idx # i]))
            IN  mh_fold_by({kept[k].idx : k \in DOMAIN kept})
    IN  mh_fold_kept(SelectSeq(hits, LAMBDA h : person_ids[h.idx] # query_id))

\* A fill loop without its break.
mh_fill_no_break(result, more, top_n) ==
    result \o SelectSeq(more, LAMBDA idx : idx \notin Range(result))

\* A fill loop: append the elements of more (in order) that are not yet in
\* result, and break once result holds top_n.
mh_fill(result, more, top_n) ==
    Prefix(result \o SelectSeq(more, LAMBDA idx : idx \notin Range(result)), top_n)

\* sorted(candidate_scores.items(), key=score, reverse=True)[:top_n] (what
\* heapq.nlargest returns as well), then the two fills.
mh_select(acc, person_ids, query_id, top_n) ==
    LET \* The candidates with matches that the top scores left out, then the scan.
        mh_backfill(top) ==
            LET \* The sequential scan that fills what is still missing.
                mh_scan(result_indices) ==
                    IF Len(result_indices) < top_n
                    THEN mh_fill(result_indices,
                                 SelectSeq([k \in 1..Cardinality(DOMAIN person_ids) |-> k - 1],
                                           LAMBDA idx : person_ids[idx] # query_id),
                                 top_n)
                    ELSE result_indices
            IN  mh_scan(IF Len(top) < top_n
                    THEN mh_fill(top, AscSeq({idx \in Range(acc.order) : acc.count[idx] > 0} \ Range(top)),
                                 top_n)
                    ELSE top)

        mh_boosted_score(score, match_count, rare_matches) ==
            LET \* The 1.8 boost for two or more rare matches.
                mh_rare_boost(boosted) ==
                    IF match_count > 0 /\ rare_matches >= 2 THEN (boosted * 18) \div 10 ELSE boosted

                \* multi_locus_bonus = 1.0 + 0.22 * math.sqrt(match_count), in thousandths
                mh_bonus == 1000 + (220 * ISqrt(match_count * 1000000)) \div 1000
            IN  mh_rare_boost(IF match_count > 0 THEN (score * mh_bonus) \div 1000 ELSE score)
    IN  mh_backfill(Prefix(SortDesc(acc.order,
                       List([k \in 1..Len(acc.order) |->
                           mh_boosted_score(acc.score[acc.order[k]], acc.count[acc.order[k]],
                                            acc.rare[acc.order[k]])])),
                   top_n))

\* The loop reads inverted_index[locus] at every locus column up to the
\* last one it reaches where the query has alleles.
mh_index_read(inverted_index, query_profile, locus_columns, last) ==
    LET \* The inverted index after reads of inverted_index[locus] at the loci read:
        \* a read of a defaultdict inserts the missing key.
        mh_index_with(read) ==
            [l \in DOMAIN inverted_index \cup read |-> mh_index_at(inverted_index, l)]
    IN  mh_index_with({locus_columns[j] : j \in {i \in 1..last :
                mh_parse_alleles(QueryGet(query_profile, locus_columns[i], Text(<<"">>))) # {}}})

\* [raised, index, result]: whether person_ids[idx] raised IndexError, the
\* inverted index as the reads left it, and the row indices returned.
prefilter_candidates(query_profile, database_df, inverted_index, allele_freqs, top_n, seed) ==
    LET mh_prefilter_visit(person_ids, locus_columns, byLocus) ==
            LET \* bad holds the locus columns with a visit of a row index outside
                \* person_ids: the first of them raises IndexError.
                mh_prefilter_result(bad) ==
                    IF bad # {}
                    THEN [raised |-> TRUE,
                          index |-> mh_index_read(inverted_index, query_profile, locus_columns,
                                                  CHOOSE i \in bad : \A j \in bad : i <= j),
                          result |-> <<>>]
                    ELSE [raised |-> FALSE,
                          index |-> mh_index_read(inverted_index, query_profile, locus_columns,
                                                  Len(locus_columns)),
                          result |-> mh_select(mh_score_fold(FlattenSeq(byLocus), person_ids,
                                                             query_profile.PersonID),
                                               person_ids, query_profile.PersonID, top_n)]
            IN  mh_prefilter_result({i \in DOMAIN byLocus :
                        \E k \in DOMAIN byLocus[i] : byLocus[i][k].idx \notin DOMAIN person_ids})
    IN  mh_prefilter_visit(PersonIds(database_df),
            LocusColumns(database_df),
            mh_locus_hits(query_profile, LocusColumns(database_df), inverted_index, allele_freqs,
                          seed))

(***************************************************************************)
(* mhngar: match_single.                                                   *)
(***************************************************************************)
\* The cap of the prefilter: n_candidates = min(5500, len(database_df)).
TopNCap == 5500

\* results[:10]
TopK == 10

\* posterior = (clr * prior) / (clr * prior + (1 - prior)) with prior = 0.5, in
\* doubles.  The posterior p is held as 1000 * log10(p / (1 - p)), which for
\* p = clr / (clr + 1) is the clr's own 1000 * log10; Inf stands for p == 1.0
\* and -Inf for p == 0.0.  From clr = 2 ** 54 on, clr * 0.5 + 0.5 rounds to
\* clr * 0.5 and the quotient is 1.0; at the least subnormal, clr * 0.5
\* rounds to 0.0.
mh_posterior(clr) ==
    LET \* 1000 * log10(2 ** 54) and 1000 * log10(5e-324), rounded outwards
        OneFrom == 16256
        ZeroUpTo == -323200
    IN  IF clr >= OneFrom THEN Inf
        ELSE IF clr <= ZeroUpTo THEN -Inf
        ELSE clr

\* One pass of the loop of step 4 for a candidate that is not skipped.
mh_record(query_profile, candidate_row, allele_freqs, locus_columns) ==
    LET mh_record_of(candidate_id, r) ==
            LET \* math.log10 of the consistency boost min(1.0 + (ratio - 0.59) * 2.9, 1.5),
                \* applied when ratio = consistent / (consistent + mutated) > 0.59 and
                \* consistent >= 12.
                mh_boost(consistent, mutated) ==
                    IF consistent + mutated > 0 /\ 100 * consistent > 59 * (consistent + mutated)
                       /\ consistent >= 12
                    THEN Log10m(<<Min2(1000 + (2900 * consistent) \div (consistent + mutated) - 1711, 1500),
                                  1000>>)
                    ELSE 0
            IN  [person_id |-> candidate_id,
                 clr |-> r.clr + mh_boost(r.consistent, r.mutated),
                 posterior |-> mh_posterior(r.clr + mh_boost(r.consistent, r.mutated)),
                 consistent_loci |-> r.consistent,
                 mutated_loci |-> r.mutated,
                 inconclusive_loci |-> r.missing]
    IN  mh_record_of(candidate_row.PersonID,
            compute_clr_bidirectional(query_profile, candidate_row, allele_freqs, locus_columns))

\* Step 4 followed by a filter that step 4 does not have: only records of
\* at most 2 exclusions are kept.
mh_scored_admissible(query_profile, database_df, candidate_indices, allele_freqs) ==
    LET mh_records(kept) ==
            List([k \in 1..Len(kept) |->
                mh_record(query_profile, database_df.rows[kept[k] + 1], allele_freqs,
                          LocusColumns(database_df))])
    IN  SelectSeq(mh_records(SelectSeq(candidate_indices,
                      LAMBDA idx : database_df.rows[idx + 1].PersonID # query_profile.PersonID)),
                  LAMBDA rec : Len(LocusColumns(database_df))
                                   - (rec.consistent_loci + rec.mutated_loci + rec.inconclusive_loci) <= 2)

\* Step 4: the records of the candidates whose PersonID is not the
\* query's, before the sort.
mh_scored(query_profile, database_df, candidate_indices, allele_freqs) ==
    LET mh_records(kept) ==
            List([k \in 1..Len(kept) |->
                mh_record(query_profile, database_df.rows[kept[k] + 1], allele_freqs,
                          LocusColumns(database_df))])
    IN  mh_records(SelectSeq(candidate_indices,
                LAMBDA idx : database_df.rows[idx + 1].PersonID # query_profile.PersonID))

mh_refresh_index_always(database_df, db_hash, hash1, freqs1, c_index, built) ==
    [hash |-> hash1, freqs |-> freqs1, index |-> Some(build_inverted_index(database_df)),
     built |-> built \cup {"build_inverted_index"}]

\* Step 2: the index is rebuilt when the stored hash differs from db_hash
\* (the hash step 1 left) or no index is cached.
mh_refresh_index(database_df, db_hash, hash1, freqs1, c_index, built) ==
    IF hash1 # db_hash \/ c_index = None
    THEN [hash |-> hash1, freqs |-> freqs1, index |-> Some(build_inverted_index(database_df)),
          built |-> built \cup {"build_inverted_index"}]
    ELSE [hash |-> hash1, freqs |-> freqs1, index |-> c_index, built |-> built]

\* Steps 1 and 2 of match_single: the cache after the two rebuild tests, and
\* the builders that ran.
mh_refresh(database_df, c_hash, c_freqs, c_index) ==
    LET \* Step 1: the frequencies are rebuilt, and the hash stored, when the stored
        \* hash differs from db_hash or no table is cached.
        mh_refresh_freqs(db_hash) ==
            IF c_hash # db_hash \/ c_freqs = None
            THEN mh_refresh_index(database_df, db_hash, db_hash,
                                  Some(compute_allele_frequencies(database_df)), c_index,
                                  {"compute_allele_frequencies"})
            ELSE mh_refresh_index(database_df, db_hash, c_hash, c_freqs, c_index, {})
    IN  mh_refresh_freqs(Some(Fingerprint(database_df)))

\* results[:10] without the sort.
RankTop_unsorted(results) == Prefix(results, TopK)

\* results.sort(key=clr, reverse=True); return results[:10]
RankTop(results) ==
    Prefix(SortDesc(results, List([k \in 1..Len(results) |-> results[k].clr])), TopK)

mh_match_filtered(query_profile, database_df, c, pre) ==
    LET mh_match_result(scored) ==
            [hash |-> c.hash, freqs |-> c.freqs, index |-> Some(pre.index), built |-> c.built,
             raised |-> "", scored |-> scored, records |-> RankTop(scored)]

        \* The fallback of step 3 when the prefilter returns nothing.
        mh_candidates(result) ==
            IF result = <<>>
            THEN Prefix(SelectSeq([k \in 1..NRows(database_df) |-> k - 1],
                            LAMBDA i : database_df.rows[i + 1].PersonID # query_profile.PersonID),
                        Min2(TopNCap, NRows(database_df)))
            ELSE result
    IN  IF pre.raised
        THEN [hash |-> c.hash, freqs |-> c.freqs, index |-> Some(pre.index), built |-> c.built,
              raised |-> "IndexError", scored |-> <<>>, records |-> <<>>]
        ELSE mh_match_result(mh_scored(query_profile, database_df,
                           mh_candidates(pre.result), c.freqs[1]))

mh_match_cached(query_profile, database_df, c, seed) ==
    mh_match_filtered(query_profile, database_df, c,
        prefilter_candidates(query_profile, database_df, c.index[1], c.freqs[1],
                             Min2(TopNCap, NRows(database_df)), seed))

\* The whole call: the cache it leaves and what it returns or raises.
mhngar_match_single(query_profile, database_df, c_hash, c_freqs, c_index, seed) ==
    mh_match_cached(query_profile, database_df,
                    mh_refresh(database_df, c_hash, c_freqs, c_index), seed)

(***************************************************************************)
(* AmiraliShadi: the vectorized database, cached under the object's id.    *)
(* Tensor entries are allele values in tenths; two float32 entries are     *)
(* equal exactly when their decimals are.                                  *)
(***************************************************************************)
\* np.nan in the tensor and the query matrix.
AmNaN == -1

\* pd.to_numeric(..., errors="coerce") of one token
am_to_numeric(token) == DictGet(FloatTable, token, AmNaN)

\* db_tensor[row, locus] = <<a1, a2>>
am_tensor(database_df, loci_cols) ==
    LET am_pair_of(toks) ==
            LET \* a2 after the homozygote fill: the second token's value, or a1 where
                \* there is none or it does not parse.
                am_second(a1, a2) == IF a2 = AmNaN THEN a1 ELSE a2
            IN  IF toks = <<>> THEN <<AmNaN, AmNaN>>
                ELSE <<am_to_numeric(toks[1]),
                       am_second(am_to_numeric(toks[1]),
                                 IF Len(toks) > 1 THEN am_to_numeric(toks[2]) ELSE AmNaN)>>

        \* series.astype(str).str.strip().replace({"-": nan, "": nan, "nan": nan})
        \* then str.split(","): the tokens of a cell, none for a missing one.
        am_tokens(cell) ==
            IF cell.nan THEN <<>>
            ELSE IF Len(cell.toks) = 1 /\ Strip(cell.toks[1]) \in {"-", "", "nan"} THEN <<>>
            ELSE cell.toks
    IN  [r \in 1..NRows(database_df) |->
            [i \in 1..Len(loci_cols) |-> am_pair_of(am_tokens(database_df.rows[r][loci_cols[i]]))]]

am_freq_map(tensor, i) ==
    LET am_freq_total(counts) ==
            LET \* freq_map = {k: max(v / total_alleles, 0.001)}, in millionths
                am_freq_of(total_alleles) ==
                    [v \in DOMAIN counts |-> Max2((counts[v] * 1000000) \div total_alleles, 1000)]
            IN  am_freq_of(IF SumSeq(counts) > 0 THEN SumSeq(counts) ELSE 1)

        \* np.unique(all_alleles, return_counts=True) for one locus: the count of
        \* each value among the a1 and the a2 that are not NaN.
        am_counts(vals) ==
            [v \in vals |-> Cardinality({r \in DOMAIN tensor : tensor[r][i][1] = v})
                            + Cardinality({r \in DOMAIN tensor : tensor[r][i][2] = v})]
    IN  am_freq_total(am_counts({tensor[r][i][k] : r \in DOMAIN tensor, k \in {1, 2}} \ {AmNaN}))

\* What the build writes into _DB_CACHE, in the order of the writes.
am_cache_keys == <<"id", "tensor", "loci", "ids", "freqs">>

am_build(db_id, database_df) ==
    LET am_build_with(loci_cols) ==
            LET am_built_of(tensor) ==
                    LET am_allele_freqs(n_loci) == [i \in 1..n_loci |-> am_freq_map(tensor, i)]
                    IN  [id |-> db_id, tensor |-> tensor, loci |-> loci_cols,
                         ids |-> [r \in 1..NRows(database_df) |-> database_df.rows[r].PersonID],
                         freqs |-> am_allele_freqs(Len(loci_cols))]
            IN  am_built_of(am_tensor(database_df, loci_cols))
    IN  am_build_with(LocusColumns(database_df))

am_query_matrix(query_profile, loci_cols) ==
    LET am_query_pair(cell) ==
            LET am_query_toks(toks) ==
                    LET \* The query matrix row of one locus: NaN, NaN for a missing value or one
                        \* float() rejects.
                        am_query_floats(v1, v2) == IF v1 = AmNaN \/ v2 = AmNaN THEN <<AmNaN, AmNaN>> ELSE <<v1, v2>>
                    IN  IF toks = <<>> THEN <<AmNaN, AmNaN>>
                        ELSE am_query_floats(am_to_numeric(toks[1]),
                                             IF Len(toks) > 1 THEN am_to_numeric(toks[2]) ELSE am_to_numeric(toks[1]))
            IN  IF cell.nan THEN <<AmNaN, AmNaN>>
                ELSE IF Len(cell.toks) = 1 /\ Strip(cell.toks[1]) \in {"-", "", "nan", "None"}
                THEN <<AmNaN, AmNaN>>
                ELSE am_query_toks(cell.toks)
    IN  [i \in 1..Len(loci_cols) |-> am_query_pair(QueryGet(query_profile, loci_cols[i], Text(<<"-">>)))]

\* np.abs(x - y) < 0.001: false when either is NaN
am_eq(x, y) == x # AmNaN /\ y # AmNaN /\ x = y

am_masks(d, q) ==
    LET \* The masks of one locus of one row.
        am_masks_of(shared, inconclusive, mut) ==
            [shared |-> shared, inc |-> inconclusive,
             mut |-> mut /\ ~shared /\ ~inconclusive,
             excluded |-> ~shared /\ ~(mut /\ ~shared /\ ~inconclusive) /\ ~inconclusive]

        \* is_mut: 0.9 < |x - y| < 1.1 (no two values of the table are 0.9 or 1.1
        \* apart, where float32 rounding would decide)
        am_is_mut(x, y) == x # AmNaN /\ y # AmNaN /\ Abs(x - y) > 9 /\ Abs(x - y) < 11
    IN  am_masks_of(am_eq(d[1], q[1]) \/ am_eq(d[1], q[2]) \/ am_eq(d[2], q[1]) \/ am_eq(d[2], q[2]),
                    d[1] = AmNaN \/ q[1] = AmNaN,
                    am_is_mut(d[1], q[1]) \/ am_is_mut(d[1], q[2])
                        \/ am_is_mut(d[2], q[1]) \/ am_is_mut(d[2], q[2]))

\* The contribution of one locus to log_clr.
am_locus_log(m, d, q, freq_map) ==
    LET \* np.log10(1.0 / (2.0 * f)) for f the least frequency of the shared values
        am_log_pi(shared_vals) ==
            LET \* freq_map.get(v, 0.05): the keys are float64 and v is a float32, so only
                \* a whole number finds its key.
                am_freq_get(v) == IF v % 10 = 0 THEN DictGet(freq_map, v, 50000) ELSE 50000
            IN  Log10m(<<1000000, 2 * MinOver(shared_vals, [v \in shared_vals |-> am_freq_get(v)])>>)

        \* shared_vals: q_1 and q_2, each when it is one of the row's two values
        am_shared_vals ==
            (IF am_eq(q[1], d[1]) \/ am_eq(q[1], d[2]) THEN {q[1]} ELSE {})
            \cup (IF am_eq(q[2], d[1]) \/ am_eq(q[2], d[2]) THEN {q[2]} ELSE {})
    IN  IF m.inc THEN 0
        ELSE IF m.shared THEN am_log_pi(am_shared_vals)
        ELSE IF m.mut THEN -2700
        ELSE -5000

am_record(pid, row, query_matrix, allele_freqs) ==
    LET am_record_masks(masks) ==
            LET am_record_of(logs) ==
                    [person_id |-> pid,
                     clr |-> SumSeq(logs),
                     consistent_loci |-> Cardinality({i \in DOMAIN masks : masks[i].shared}),
                     mutated_loci |-> Cardinality({i \in DOMAIN masks : masks[i].mut}),
                     inconclusive_loci |-> Cardinality({i \in DOMAIN masks : masks[i].inc})]
            IN  am_record_of([i \in DOMAIN masks |-> am_locus_log(masks[i], row[i], query_matrix[i], allele_freqs[i])])
    IN  am_record_masks([i \in DOMAIN row |-> am_masks(row[i], query_matrix[i])])

\* The results list before the sort, over the rows of the tensor admitted.
am_results(c, query_id, query_matrix) ==
    LET \* The loop over candidate_indices: db_ids[idx] raises IndexError for a row
        \* of the tensor the identifier array does not have; the query's own
        \* identifier is skipped.
        am_results_rows(candidate_indices) ==
            LET \* The records of the rows kept, in row order.
                am_results_of(kept) ==
                    [k \in 1..Len(kept) |->
                        am_record(c.ids[kept[k]], c.tensor[kept[k]], query_matrix, c.freqs)]
            IN  IF \E k \in DOMAIN candidate_indices : candidate_indices[k] > Len(c.ids)
                THEN [raised |-> "IndexError", scored |-> <<>>]
                ELSE [raised |-> "",
                      scored |-> am_results_of(SelectSeq(candidate_indices, LAMBDA r : c.ids[r] # query_id))]

        \* exclusion_counts <= 2
        am_admitted(row) ==
            Cardinality({i \in DOMAIN row : am_masks(row[i], query_matrix[i]).excluded}) <= 2
    IN  am_results_rows(SelectSeq([r \in 1..Len(c.tensor) |-> r],
                LAMBDA r : am_admitted(c.tensor[r])))

am_scored(c, query_profile) ==
    am_results(c, query_profile.PersonID, am_query_matrix(query_profile, c.loci))

am_answer(c, res) ==
    [cache |-> c, raised |-> res.raised, scored |-> res.scored, records |-> RankTop(res.scored)]

am_match_cached(c, query_profile) == am_answer(c, am_scored(c, query_profile))

\* The cache is rebuilt only when the cached id is not the id of the
\* DataFrame object passed.
am_refresh(cache, db_id, database_df) ==
    IF DictGet(cache, "id", 0) # db_id THEN am_build(db_id, database_df) ELSE cache

\* The whole call: the cache it leaves and what it returns.
amirali_match_single(query_profile, db_id, database_df, cache) ==
    am_match_cached(am_refresh(cache, db_id, database_df), query_profile)

(***************************************************************************)
(* participant_solution: the template's matcher.  A score is carried as    *)
(* 1000 * log10 of the float the code computes.                            *)
(***************************************************************************)
\* ALLELE_FREQS for the loci of the model, keyed by the allele in tenths,
\* in thousandths.
ALLELE_FREQS ==
    [TH01 |-> (60 :> 200) @@ (70 :> 150) @@ (80 :> 180) @@ (90 :> 220) @@ (93 :> 150) @@
              (100 :> 80) @@ (110 :> 20),
     TPOX |-> (80 :> 400) @@ (90 :> 100) @@ (100 :> 120) @@ (110 :> 250) @@ (120 :> 100) @@
              (130 :> 30),
     CSF1PO |-> (90 :> 50) @@ (100 :> 200) @@ (110 :> 250) @@ (120 :> 300) @@ (130 :> 120) @@
                (140 :> 80),
     D5S818 |-> (90 :> 50) @@ (100 :> 80) @@ (110 :> 250) @@ (120 :> 300) @@ (130 :> 200) @@
                (140 :> 100) @@ (150 :> 20)]

\* DEFAULT_FREQ = 0.01, in thousandths
DEFAULT_FREQ == 10

get_freq(locus, allele) ==
    IF locus \in DOMAIN ALLELE_FREQS THEN DictGet(ALLELE_FREQS[locus], allele, DEFAULT_FREQ)
    ELSE DEFAULT_FREQ

\* str(value).strip(), as tokens: the first loses its leading whitespace and
\* the last its trailing whitespace.
StripText(toks) ==
    LET RStripTable == ("14 " :> "14") @@ (" " :> "")

        \* str.lstrip and str.rstrip of a token.
        LStripTable == (" 13" :> "13") @@ (" " :> "")
    IN  [i \in DOMAIN toks |->
            IF i = 1 /\ i = Len(toks) THEN Strip(toks[i])
            ELSE IF i = 1 THEN DictGet(LStripTable, toks[i], toks[i])
            ELSE IF i = Len(toks) THEN DictGet(RStripTable, toks[i], toks[i])
            ELSE toks[i]]

\* pd.isna(value) or str(value).strip() in ("-", "")
ps_missing(value) == value.nan \/ StripText(value.toks) \in {<<"-">>, <<"">>}

normalize_str(value) == IF ps_missing(value) THEN <<"-">> ELSE StripText(value.toks)

\* The set of floats of the parts that parse, in tenths.
ps_parse_alleles(value) ==
    IF ps_missing(value) THEN {}
    ELSE {FloatTable[Strip(p)] :
             p \in {t \in Range(value.toks) :
                       Strip(t) \notin {"", "-"} /\ Strip(t) \in DOMAIN FloatTable}}

ps_analyze(q_norm, c_norm, q_alleles, c_alleles, locus) ==
    LET \* The branch of shared alleles: 1.0 / min_freq for the rarest shared one.
        ps_shared(min_freq) ==
            [type |-> IF q_norm = c_norm THEN "identical" ELSE "partial",
             score |-> Log10m(<<1000, min_freq>>)]

        \* 0 < abs(q - c) <= 1.0 on floats; 32.2 - 31.2 is above 1.0.
        ps_one_step(q, c) ==
            q # c /\ Abs(q - c) <= 10 /\ ~(Abs(q - c) = 10 /\ Min2(q, c) \in InexactSteps)
    IN  IF q_alleles \cap c_alleles = {}
        THEN IF \E q \in q_alleles, c \in c_alleles : ps_one_step(q, c)
             THEN [type |-> "mutation", score |-> -1000]
             ELSE [type |-> "mismatch", score |-> -4000]
        ELSE ps_shared(MinOver(q_alleles \cap c_alleles,
                         [a \in q_alleles \cap c_alleles |-> get_freq(locus, a)]))

\* [type, score]
analyze_locus(query_str, candidate_str, locus) ==
    IF ps_missing(query_str) \/ ps_missing(candidate_str)
    THEN [type |-> "missing", score |-> 0]
    ELSE ps_analyze(normalize_str(query_str), normalize_str(candidate_str),
                    ps_parse_alleles(query_str), ps_parse_alleles(candidate_str), locus)

ps_count(results, type) == Cardinality({i \in DOMAIN results : results[i].type = type})

ps_candidate(candidate_id, results) ==
    LET \* The candidate's dict: score = total_lr * (1 + partial_count * 0.5), and
        \* posterior = partial_count / 21.0 as <<numerator, denominator>>.
        ps_candidate_of(total_lr, identical, partial, mutation, missing) ==
            [person_id |-> candidate_id,
             clr |-> total_lr + Log10m(<<2 + partial, 2>>),
             posterior |-> <<partial, 21>>,
             consistent_loci |-> identical + partial,
             mutated_loci |-> mutation,
             inconclusive_loci |-> missing]
    IN  ps_candidate_of(SumSeq([i \in DOMAIN results |-> results[i].score]),
                        ps_count(results, "identical"), ps_count(results, "partial"),
                        ps_count(results, "mutation"), ps_count(results, "missing"))

\* The analysis of every locus of one row.
ps_row_results(query_profile, row, loci) ==
    [i \in DOMAIN loci |->
        analyze_locus(QueryGet(query_profile, loci[i], Text(<<"-">>)), row[loci[i]], loci[i])]

\* The admission of a row without the test of its PersonID.
ps_appended_any(candidate_id, query_id, results) ==
    /\ ps_count(results, "mismatch") <= 2
    /\ ps_count(results, "partial") >= 3

\* A row is appended unless it is the query's own, has more than 2
\* mismatches or fewer than 3 partial matches.
ps_appended(candidate_id, query_id, results) ==
    /\ candidate_id # query_id
    /\ ps_count(results, "mismatch") <= 2
    /\ ps_count(results, "partial") >= 3

\* candidates before the sort
ps_candidates(query_profile, database_df, loci) ==
    LET ps_candidates_in(analysed) ==
            LET ps_candidates_of(kept) ==
                    [k \in 1..Len(kept) |-> ps_candidate(database_df.rows[kept[k]].PersonID, analysed[kept[k]])]
            IN  ps_candidates_of(SelectSeq([r \in 1..NRows(database_df) |-> r],
                        LAMBDA r : ps_appended(database_df.rows[r].PersonID, query_profile.PersonID,
                                               analysed[r])))
    IN  ps_candidates_in([r \in 1..NRows(database_df) |-> ps_row_results(query_profile, database_df.rows[r], loci)])

\* The whole call.
participant_match_single(query_profile, database_df) ==
    LET ps_answer(scored) == [scored |-> scored, records |-> RankTop(scored)]
    IN  ps_answer(ps_candidates(query_profile, database_df, LocusColumns(database_df)))

(***************************************************************************)
(* ali-sefidmouy: match_single.  The clr of a record is the number of      *)
(* consistent loci itself; the posterior is carried in billionths.         *)
(***************************************************************************)
\* The nested parse_alleles: NaN and a blank string are empty; otherwise the
\* stripped non-empty tokens, "-" among them.  (A cell is NaN or a string
\* here, so the int/float branch of line 24 is not entered.)
al_parse_alleles(value) ==
    IF value.nan THEN {}
    ELSE IF StripText(value.toks) = <<"">> THEN {}
    ELSE {Strip(a) : a \in Range(value.toks)} \ {""}

\* The whole call: the candidates in row order, and the ten of highest clr.
ali_match_single(query_profile, database_df) ==
    LET loci == LocusColumns(database_df)

        \* The loci of a row where both sets are non-empty and intersect.
        al_consistent(row) ==
            {i \in DOMAIN loci :
                al_parse_alleles(QueryGet(query_profile, loci[i], Text(<<"">>)))
                    \cap al_parse_alleles(row[loci[i]]) # {}}

        \* min(0.999999, 1.0 - 1e-6 / (1.0 + clr)), in billionths
        al_posterior(clr) == Min2(999999000, 1000000000 - 1000 \div (1 + clr))

        al_candidate(row, consistent_loci) ==
            [person_id |-> row.PersonID, clr |-> consistent_loci,
             posterior |-> al_posterior(consistent_loci),
             consistent_loci |-> consistent_loci, mutated_loci |-> 0,
             inconclusive_loci |-> Len(loci) - consistent_loci]

        \* The rows kept: another PersonID than the query's and a consistent locus.
        al_kept ==
            SelectSeq(database_df.rows,
                      LAMBDA row : row.PersonID # query_profile.PersonID /\ al_consistent(row) # {})

        al_answer(scored) == [scored |-> scored, records |-> RankTop(scored)]
    IN  al_answer(List([k \in DOMAIN al_kept |->
                           al_candidate(al_kept[k], Cardinality(al_consistent(al_kept[k])))]))

(***************************************************************************)
(* The inputs: DataFrames and query profiles.                              *)
(***************************************************************************)
\* Bounds of the model.
NumHandles == 1

MaxRows == 2

NumThreads == 2

ManyRows == 14

MaxAlleles == 2

\* The most locus columns of the databases built column by column.
MaxLoci == 7

\* PersonID values, by row position.
PersonIDs == <<"P1", "P2", "P3", "P4", "P5", "P6", "P7", "P8", "P9", "P10",
               "P11", "P12", "P13", "P14", "P15", "P16">>

\* The DataFrame objects of a single-threaded caller, by id.
Handles == 1..NumHandles

\* The threads of a concurrent caller; each has a DataFrame object of its
\* own as well.
Threads == 1..NumThreads

AllHandles == 1..Max2(NumHandles, NumThreads)

\* A DataFrame with the given columns, whose row i has PersonID PersonIDs[i]
\* and the cells of profiles[i].
MkDataFrame(columns, profiles) ==
    [columns |-> columns,
     rows |-> [i \in 1..Len(profiles) |->
                 [c \in Range(columns) |->
                     IF c = "PersonID" THEN PersonIDs[i] ELSE profiles[i][c]]]]

\* Every sequence over S of length at most n.
SeqsUpTo(S, n) == UNION {[1..k -> S] : k \in 0..n}

\* Two-locus profiles: the second has no TPOX reading.
Columns2 == <<"PersonID", "TH01", "TPOX">>

DataFrames2 ==
    LET Pool2 == {[TH01 |-> Text(<<"9", "10">>), TPOX |-> Text(<<"8">>)],
                  [TH01 |-> Text(<<"9", "9.3">>), TPOX |-> Text(<<"-">>)]}
    IN  {MkDataFrame(Columns2, s) : s \in SeqsUpTo(Pool2, MaxRows)}

\* Queries with and without a TPOX reading, under an identifier of the
\* database and under one of its own.
Queries2 ==
    {[PersonID |-> id, TH01 |-> Text(<<"9", "10">>), TPOX |-> tpox] :
        id \in {"P1", "Q1"}, tpox \in {Text(<<"8">>), Text(<<"-">>)}}

\* DataFrames of at least one row.
DataFramesA ==
    LET \* Two-locus profiles with a reading at every locus; the first token of
        \* the third's TH01 is not a number.
        PoolA == {[TH01 |-> Text(<<"9", "10">>), TPOX |-> Text(<<"8">>)],
                  [TH01 |-> Text(<<"9", "9.3">>), TPOX |-> Text(<<"11">>)],
                  [TH01 |-> Text(<<"x", "9">>), TPOX |-> Text(<<"8">>)]}
    IN  {MkDataFrame(Columns2, s) : s \in SeqsUpTo(PoolA, MaxRows) \ {<<>>}}

(***************************************************************************)
(* The state machine: the caller's DataFrames and the calls it makes.      *)
(***************************************************************************)
NoCall == [impl |-> "", handle |-> 0, db |-> None, query |-> None, raised |-> "",
           scored |-> <<>>, records |-> <<>>, built |-> {}]

\* A thread that has not called yet: where it stands and its locals.
IdleThread == [pc |-> "idle", impl |-> "", handle |-> 0, query |-> None, db_hash |-> None,
               allele_freqs |-> None, inverted_index |-> None, am |-> None, step |-> 0,
               raised |-> "", records |-> <<>>]

Init ==
    /\ heap = [h \in AllHandles |-> None]
    /\ hashSeed \in {0, 1}
    /\ cache_db_hash = None
    /\ cache_allele_freqs = None
    /\ cache_inverted_index = None
    /\ DB_CACHE = EmptyDict
    /\ call = NoCall
    /\ threads = [t \in Threads |-> IdleThread]

\* The caller builds a DataFrame (pd.read_csv); the object gets a free id.
LoadDataFrame(h, df) ==
    /\ heap[h] = None
    /\ heap' = [heap EXCEPT ![h] = Some(df)]
    /\ UNCHANGED <<hashSeed, cache_db_hash, cache_allele_freqs, cache_inverted_index,
                   DB_CACHE, call, threads>>

\* The caller changes the object's content in place: same id, new content.
MutateInPlace(h, df) ==
    /\ heap[h] # None
    /\ heap[h] # Some(df)
    /\ heap' = [heap EXCEPT ![h] = Some(df)]
    /\ UNCHANGED <<hashSeed, cache_db_hash, cache_allele_freqs, cache_inverted_index,
                   DB_CACHE, call, threads>>

\* The caller drops the object: its id is free for the next one.
Discard(h) ==
    /\ heap[h] # None
    /\ heap' = [heap EXCEPT ![h] = None]
    /\ UNCHANGED <<hashSeed, cache_db_hash, cache_allele_freqs, cache_inverted_index,
                   DB_CACHE, call, threads>>

\* mhngar: match_single(query_profile, database_df), run to its end.
MhngarMatchSingle(h, query_profile) ==
    /\ heap[h] # None
    /\ \E r \in {mhngar_match_single(query_profile, heap[h][1], cache_db_hash,
                                     cache_allele_freqs, cache_inverted_index, hashSeed)} :
           /\ cache_db_hash' = r.hash
           /\ cache_allele_freqs' = r.freqs
           /\ cache_inverted_index' = r.index
           /\ call' = [impl |-> "mhngar", handle |-> h, db |-> heap[h],
                       query |-> Some(query_profile), raised |-> r.raised,
                       scored |-> r.scored, records |-> r.records, built |-> r.built]
    /\ UNCHANGED <<heap, hashSeed, DB_CACHE, threads>>

\* mhngar alone, on the two-locus DataFrames.
NextMhngar ==
    \/ \E h \in Handles, df \in DataFrames2 : LoadDataFrame(h, df)
    \/ \E h \in Handles, df \in DataFrames2 : MutateInPlace(h, df)
    \/ \E h \in Handles : Discard(h)
    \/ \E h \in Handles, q \in Queries2 : MhngarMatchSingle(h, q)

SpecMhngar == Init /\ [][NextMhngar]_vars

(***************************************************************************)
(* mhngar: the cache across calls (SpecMhngar).                            *)
(***************************************************************************)
\* The last call was made to mhngar's match_single.
MhngarCalled == call.impl = "mhngar"

\* An inverted index without the loci that hold no allele.
NonEmptyLoci(index) == [l \in {k \in DOMAIN index : index[k] # EmptyDict} |-> index[l]]

\* C1: the inverted index a call of mhngar's match_single answers with (the
\* one it leaves in the cache) is the index of the database passed to that
\* call, never the index of an earlier database.
C1_IndexOfCallDatabase ==
    MhngarCalled =>
        NonEmptyLoci(cache_inverted_index[1]) = build_inverted_index(call.db[1])

\* C4: no call of mhngar's match_single raises an exception.
C4_NoCallRaises == MhngarCalled => call.raised = ""

\* C5: a call that built the frequency table and the inverted index from
\* its database leaves in the cache exactly what the two builders return.
C5_CacheEqualsFreshBuild ==
    (MhngarCalled /\ call.built = {"compute_allele_frequencies", "build_inverted_index"}) =>
        /\ cache_inverted_index = Some(build_inverted_index(call.db[1]))
        /\ cache_allele_freqs = Some(compute_allele_frequencies(call.db[1]))

\* A step that is a call of mhngar's match_single on a database whose
\* fingerprint equals the cached one, with both caches populated.
MhngarCachedCall ==
    /\ call' # call
    /\ call'.impl = "mhngar"
    /\ cache_db_hash = Some(Fingerprint(call'.db[1]))
    /\ cache_allele_freqs # None
    /\ cache_inverted_index # None

\* C6: a call whose database fingerprint equals the cached fingerprint, with
\* both caches populated, runs neither compute_allele_frequencies nor
\* build_inverted_index, and leaves the cached fingerprint and frequency
\* table as they were and every entry of the cached index in place.
C6_EqualFingerprintSkipsRebuild ==
    [][MhngarCachedCall =>
          /\ call'.built = {}
          /\ cache_db_hash' = cache_db_hash
          /\ cache_allele_freqs' = cache_allele_freqs
          /\ \A l \in DOMAIN cache_inverted_index[1] :
                 /\ l \in DOMAIN cache_inverted_index'[1]
                 /\ cache_inverted_index'[1][l] = cache_inverted_index[1][l]]_vars

\* A call answered from the cache: no builder ran, and records came back.
C6_Witness == MhngarCalled /\ call.built = {} /\ call.records # <<>>

(***************************************************************************)
(* AmiraliShadi: the cache across calls (SpecAmirali).                     *)
(***************************************************************************)
\* AmiraliShadi: match_single(query_profile, database_df), run to its end;
\* the id of the DataFrame object is its handle.
AmiraliMatchSingle(h, query_profile) ==
    /\ heap[h] # None
    /\ \E r \in {amirali_match_single(query_profile, h, heap[h][1], DB_CACHE)} :
           /\ DB_CACHE' = r.cache
           /\ call' = [impl |-> "amirali", handle |-> h, db |-> heap[h],
                       query |-> Some(query_profile), raised |-> r.raised,
                       scored |-> r.scored, records |-> r.records,
                       built |-> IF DictGet(DB_CACHE, "id", 0) # h THEN {"build"} ELSE {}]
    /\ UNCHANGED <<heap, hashSeed, cache_db_hash, cache_allele_freqs, cache_inverted_index,
                   threads>>

NextAmirali ==
    \/ \E h \in Handles, df \in DataFramesA : LoadDataFrame(h, df)
    \/ \E h \in Handles, df \in DataFramesA : MutateInPlace(h, df)
    \/ \E h \in Handles : Discard(h)
    \/ \E h \in Handles, q \in Queries2 : AmiraliMatchSingle(h, q)

SpecAmirali == Init /\ [][NextAmirali]_vars

\* The tensor, the identifier array and the frequency maps of c are those
\* of fresh.
AmSameData(c, fresh) ==
    c.tensor = fresh.tensor /\ c.ids = fresh.ids /\ c.freqs = fresh.freqs

\* C2: the cached tensor, identifier array and frequency maps a call of
\* AmiraliShadi's match_single answers with are those derived from the
\* content of the database passed to that call.
C2_CacheOfCallDatabase ==
    call.impl = "amirali" => AmSameData(DB_CACHE, am_build(call.handle, call.db[1]))

(***************************************************************************)
(* Concurrent callers (SpecConc): each thread makes one call of            *)
(* match_single, statement by statement; a step is one access of the       *)
(* module-level cache.                                                     *)
(***************************************************************************)
DataFramesC ==
    {MkDataFrame(Columns2, <<[TH01 |-> Text(<<"9", "10">>), TPOX |-> Text(<<"8">>)]>>),
     MkDataFrame(Columns2, <<[TH01 |-> Text(<<"9", "9.3">>), TPOX |-> Text(<<"11">>)],
                             [TH01 |-> Text(<<"9", "10">>), TPOX |-> Text(<<"8">>)]>>)}

QueriesC == {[PersonID |-> "Q1", TH01 |-> Text(<<"9", "10">>), TPOX |-> Text(<<"8">>)]}

\* The DataFrame a thread was called with.
ThreadDf(t) == heap[threads[t].handle][1]

\* A thread enters match_single; mhngar computes db_hash first.
StartCall(t, impl, h, query_profile) ==
    /\ threads[t].pc = "idle"
    /\ heap[h] # None
    /\ threads' = [threads EXCEPT ![t] =
           [IdleThread EXCEPT !.pc = IF impl = "mhngar" THEN "step1" ELSE "am_test",
                              !.impl = impl, !.handle = h, !.query = Some(query_profile),
                              !.db_hash = IF impl = "mhngar" THEN Some(Fingerprint(heap[h][1]))
                                          ELSE None]]
    /\ UNCHANGED <<heap, hashSeed, cache_db_hash, cache_allele_freqs, cache_inverted_index,
                   DB_CACHE, call>>

\* mhngar, step 1: the test of the cached hash and frequency table.
MhStep1Test(t) ==
    /\ threads[t].pc = "step1"
    /\ threads' = [threads EXCEPT ![t].pc =
           IF cache_db_hash # threads[t].db_hash \/ cache_allele_freqs = None
           THEN "freqs" ELSE "read_freqs"]
    /\ UNCHANGED <<heap, hashSeed, cache_db_hash, cache_allele_freqs, cache_inverted_index,
                   DB_CACHE, call>>

\* _cache_allele_freqs = compute_allele_frequencies(database_df)
MhWriteFreqs(t) ==
    /\ threads[t].pc = "freqs"
    /\ cache_allele_freqs' = Some(compute_allele_frequencies(ThreadDf(t)))
    /\ threads' = [threads EXCEPT ![t].pc = "hash"]
    /\ UNCHANGED <<heap, hashSeed, cache_db_hash, cache_inverted_index, DB_CACHE, call>>

\* _cache_db_hash = db_hash
MhWriteHash(t) ==
    /\ threads[t].pc = "hash"
    /\ cache_db_hash' = threads[t].db_hash
    /\ threads' = [threads EXCEPT ![t].pc = "read_freqs"]
    /\ UNCHANGED <<heap, hashSeed, cache_allele_freqs, cache_inverted_index, DB_CACHE, call>>

\* allele_freqs = _cache_allele_freqs
MhReadFreqs(t) ==
    /\ threads[t].pc = "read_freqs"
    /\ threads' = [threads EXCEPT ![t].pc = "step2", ![t].allele_freqs = cache_allele_freqs]
    /\ UNCHANGED <<heap, hashSeed, cache_db_hash, cache_allele_freqs, cache_inverted_index,
                   DB_CACHE, call>>

\* mhngar, step 2: the test of the cached hash and inverted index.
MhStep2Test(t) ==
    /\ threads[t].pc = "step2"
    /\ threads' = [threads EXCEPT ![t].pc =
           IF cache_db_hash # threads[t].db_hash \/ cache_inverted_index = None
           THEN "index" ELSE "read_index"]
    /\ UNCHANGED <<heap, hashSeed, cache_db_hash, cache_allele_freqs, cache_inverted_index,
                   DB_CACHE, call>>

\* _cache_inverted_index = build_inverted_index(database_df)
MhWriteIndex(t) ==
    /\ threads[t].pc = "index"
    /\ cache_inverted_index' = Some(build_inverted_index(ThreadDf(t)))
    /\ threads' = [threads EXCEPT ![t].pc = "read_index"]
    /\ UNCHANGED <<heap, hashSeed, cache_db_hash, cache_allele_freqs, DB_CACHE, call>>

\* inverted_index = _cache_inverted_index
MhReadIndex(t) ==
    /\ threads[t].pc = "read_index"
    /\ threads' = [threads EXCEPT ![t].pc = "eval", ![t].inverted_index = cache_inverted_index]
    /\ UNCHANGED <<heap, hashSeed, cache_db_hash, cache_allele_freqs, cache_inverted_index,
                   DB_CACHE, call>>

\* mhngar, steps 3 to 5 on the thread's locals.  The reads of the prefilter
\* insert into the index object the local names: the cache shows them when
\* it still holds that object.
MhEvaluate(t) ==
    /\ threads[t].pc = "eval"
    /\ \E r \in {mh_match_cached(threads[t].query[1], ThreadDf(t),
                       [hash |-> cache_db_hash, freqs |-> threads[t].allele_freqs,
                        index |-> threads[t].inverted_index, built |-> {}], hashSeed)} :
           /\ cache_inverted_index' =
                  IF cache_inverted_index = threads[t].inverted_index THEN r.index
                  ELSE cache_inverted_index
           /\ threads' = [threads EXCEPT ![t].pc = "done", ![t].raised = r.raised,
                                         ![t].records = r.records]
    /\ UNCHANGED <<heap, hashSeed, cache_db_hash, cache_allele_freqs, DB_CACHE, call>>

\* AmiraliShadi: the test of the cached id; on a mismatch the thread
\* vectorizes its DataFrame into locals.
AmTest(t) ==
    /\ threads[t].pc = "am_test"
    /\ threads' = [threads EXCEPT ![t] =
           IF DictGet(DB_CACHE, "id", 0) # threads[t].handle
           THEN [threads[t] EXCEPT !.pc = "am_write", !.step = 1,
                                   !.am = Some(am_build(threads[t].handle, ThreadDf(t)))]
           ELSE [threads[t] EXCEPT !.pc = "am_read"]]
    /\ UNCHANGED <<heap, hashSeed, cache_db_hash, cache_allele_freqs, cache_inverted_index,
                   DB_CACHE, call>>

\* One of the five writes _DB_CACHE[key] = ..., in the order of the code.
AmWrite(t) ==
    /\ threads[t].pc = "am_write"
    /\ DB_CACHE' = [k \in DOMAIN DB_CACHE \cup {am_cache_keys[threads[t].step]} |->
                       IF k = am_cache_keys[threads[t].step] THEN threads[t].am[1][k]
                       ELSE DB_CACHE[k]]
    /\ threads' = [threads EXCEPT ![t] =
           IF threads[t].step = Len(am_cache_keys)
           THEN [threads[t] EXCEPT !.pc = "am_read"]
           ELSE [threads[t] EXCEPT !.step = threads[t].step + 1]]
    /\ UNCHANGED <<heap, hashSeed, cache_db_hash, cache_allele_freqs, cache_inverted_index, call>>

\* The reads _DB_CACHE["tensor"], ["loci"], ["ids"], ["freqs"]: a key that
\* is not there yet raises KeyError.
AmRead(t) ==
    /\ threads[t].pc = "am_read"
    /\ threads' = [threads EXCEPT ![t] =
           IF {"tensor", "loci", "ids", "freqs"} \subseteq DOMAIN DB_CACHE
           THEN [threads[t] EXCEPT !.pc = "am_eval", !.am = Some(DB_CACHE)]
           ELSE [threads[t] EXCEPT !.pc = "done", !.raised = "KeyError"]]
    /\ UNCHANGED <<heap, hashSeed, cache_db_hash, cache_allele_freqs, cache_inverted_index,
                   DB_CACHE, call>>

\* AmiraliShadi, query parsing to the sort, on the thread's locals.
AmEvaluate(t) ==
    /\ threads[t].pc = "am_eval"
    /\ \E r \in {am_match_cached(threads[t].am[1], threads[t].query[1])} :
           threads' = [threads EXCEPT ![t].pc = "done", ![t].raised = r.raised,
                                      ![t].records = r.records]
    /\ UNCHANGED <<heap, hashSeed, cache_db_hash, cache_allele_freqs, cache_inverted_index,
                   DB_CACHE, call>>

NextConc ==
    \/ \E h \in AllHandles, df \in DataFramesC : LoadDataFrame(h, df)
    \/ \E t \in Threads, impl \in {"mhngar", "amirali"}, h \in AllHandles, q \in QueriesC :
           StartCall(t, impl, h, q)
    \/ \E t \in Threads : MhStep1Test(t)
    \/ \E t \in Threads : MhWriteFreqs(t)
    \/ \E t \in Threads : MhWriteHash(t)
    \/ \E t \in Threads : MhReadFreqs(t)
    \/ \E t \in Threads : MhStep2Test(t)
    \/ \E t \in Threads : MhWriteIndex(t)
    \/ \E t \in Threads : MhReadIndex(t)
    \/ \E t \in Threads : MhEvaluate(t)
    \/ \E t \in Threads : AmTest(t)
    \/ \E t \in Threads : AmWrite(t)
    \/ \E t \in Threads : AmRead(t)
    \/ \E t \in Threads : AmEvaluate(t)

SpecConc == Init /\ [][NextConc]_vars

\* The databases the caller holds.
LoadedDfs == {heap[h][1] : h \in {k \in AllHandles : heap[k] # None}}

\* The frequency table and inverted index a mhngar thread evaluates with
\* are the complete set of one database.
MhCompleteSet(th) ==
    \E df \in LoadedDfs :
        /\ th.allele_freqs = Some(compute_allele_frequencies(df))
        /\ NonEmptyLoci(th.inverted_index[1]) = build_inverted_index(df)

\* The tensor, ids and frequency maps an AmiraliShadi thread evaluates with
\* are the complete set of the database cached under the id.
AmCompleteSet(th) ==
    \E h \in AllHandles :
        heap[h] # None /\ th.am[1] = am_build(h, heap[h][1]) /\ th.handle = h

\* C3: a call that runs concurrently with a rebuild never evaluates its
\* query against a partially published cache: what it reads is the
\* complete set of one database, and no read fails on a missing part.
C3_NoPartialCacheObserved ==
    \A t \in Threads :
        /\ threads[t].raised # "KeyError"
        /\ (threads[t].impl = "mhngar" /\ threads[t].pc \in {"eval", "done"})
               => MhCompleteSet(threads[t])
        /\ (threads[t].impl = "amirali" /\ threads[t].pc = "am_eval")
               => AmCompleteSet(threads[t])

(***************************************************************************)
(* The three matchers on one database (Spec): four loci, and enough rows   *)
(* for more than ten candidates to be scored.                              *)
(***************************************************************************)
Columns4 == <<"PersonID", "TH01", "TPOX", "CSF1PO", "D5S818">>

Profile4(th01, tpox, csf1po, d5s818) ==
    [TH01 |-> Text(th01), TPOX |-> Text(tpox), CSF1PO |-> Text(csf1po), D5S818 |-> Text(d5s818)]

\* Against the query 9,10 / 8,11 / 10,12 / 11,12: a parent-like row, one
\* with a missing locus, one with an identical locus, one a repeat away at
\* a locus, one excluded at a locus, and one excluded everywhere.
RowPool4 ==
    <<Profile4(<<"9", "9.3">>, <<"8">>, <<"10", "11">>, <<"11", "13">>),
      Profile4(<<"10">>, <<"11", "12">>, <<"12">>, <<"-">>),
      Profile4(<<"9", "10">>, <<"8", "9">>, <<"12", "13">>, <<"12", "13">>),
      Profile4(<<"8">>, <<"8", "12">>, <<"10">>, <<"11">>),
      Profile4(<<"12", "13">>, <<"11">>, <<"10", "13">>, <<"12">>),
      Profile4(<<"13">>, <<"14">>, <<"15">>, <<"16">>)>>

DataFrames4 ==
    LET \* n rows that cycle through the pool from an offset.
        CycleRows(n, shift) == [i \in 1..n |-> RowPool4[((i + shift) % Len(RowPool4)) + 1]]
    IN  {MkDataFrame(Columns4, CycleRows(n, shift)) :
            n \in {2, ManyRows}, shift \in 0..(Len(RowPool4) - 1)}

Queries4 ==
    {[PersonID |-> id, TH01 |-> Text(<<"9", "10">>), TPOX |-> tpox,
      CSF1PO |-> Text(<<"10", "12">>), D5S818 |-> Text(<<"11", "12">>)] :
        id \in {"P1", "Q1"}, tpox \in {Text(<<"8", "11">>), Text(<<"-">>)}}

\* participant_solution: match_single(query_profile, database_df).
ParticipantMatchSingle(h, query_profile) ==
    /\ heap[h] # None
    /\ \E r \in {participant_match_single(query_profile, heap[h][1])} :
           call' = [impl |-> "participant", handle |-> h, db |-> heap[h],
                    query |-> Some(query_profile), raised |-> "",
                    scored |-> r.scored, records |-> r.records, built |-> {}]
    /\ UNCHANGED <<heap, hashSeed, cache_db_hash, cache_allele_freqs, cache_inverted_index,
                   DB_CACHE, threads>>

\* find_matches: one database, read once and passed to every call.
Next ==
    \/ \E df \in DataFrames4 : LoadDataFrame(1, df)
    \/ \E q \in Queries4 : MhngarMatchSingle(1, q)
    \/ \E q \in Queries4 : AmiraliMatchSingle(1, q)
    \/ \E q \in Queries4 : ParticipantMatchSingle(1, q)

Spec == Init /\ [][Next]_vars

(***************************************************************************)
(* Properties of the answers of the three matchers.                        *)
(***************************************************************************)
\* The row of the database with a PersonID.
RowOf(database_df, person_id) ==
    database_df.rows[CHOOSE r \in 1..NRows(database_df) :
                         database_df.rows[r].PersonID = person_id]

\* A call that returned (none raised).
Returned == call.impl # "" /\ call.raised = ""

\* C7: no record a call of match_single returns (participant_solution,
\* AmiraliShadi, mhngar) has the query's PersonID as person_id, whether or
\* not that PersonID occurs in the database and however the candidate was
\* found (index visit or sequential scan).
C7_NoSelfMatch ==
    Returned =>
        /\ \A k \in DOMAIN call.records : call.records[k].person_id # call.query[1].PersonID
        /\ \A k \in DOMAIN call.scored : call.scored[k].person_id # call.query[1].PersonID

\* A call of participant_solution with the query's own row in the database,
\* where that row passes the two other tests of admission, and other rows
\* are returned.
C7_Witness ==
    /\ call.impl = "participant"
    /\ call.records # <<>>
    /\ \E r \in 1..NRows(call.db[1]) :
           /\ call.db[1].rows[r].PersonID = call.query[1].PersonID
           /\ ps_appended_any(call.db[1].rows[r].PersonID, call.query[1].PersonID,
                  ps_row_results(call.query[1], call.db[1].rows[r], LocusColumns(call.db[1])))

\* The records of a sequence, counted.
BagOf(s) == [x \in Range(s) |-> Cardinality({i \in DOMAIN s : s[i] = x})]

\* C8: the list match_single returns has at most 10 records, all of them
\* scored candidates (min(10, scored) of them), with clr non-increasing
\* from first to last, and no scored candidate left out has a clr above
\* that of a returned record.
C8_TopTenByClr ==
    Returned =>
        /\ Len(call.records) = Min2(10, Len(call.scored))
        /\ BagOf(call.records) \sqsubseteq BagOf(call.scored)
        /\ \A i, j \in DOMAIN call.records : i < j => call.records[i].clr >= call.records[j].clr
        /\ \A x \in BagToSet(BagOf(call.scored) (-) BagOf(call.records)) :
               \A k \in DOMAIN call.records : x.clr <= call.records[k].clr

\* A call of participant_solution that scored more than 10 candidates, not
\* in the order of their clr.
C8_Witness ==
    /\ call.impl = "participant"
    /\ Len(call.scored) > 10
    /\ \E i, j \in DOMAIN call.scored : i < j /\ call.scored[i].clr < call.scored[j].clr

\* A value that is "-", empty or NaN.
MissingCell(cell) == cell.nan \/ cell.toks \in {<<"-">>, <<"">>}

\* The locus columns where neither the query nor the row is missing.
PresentLoci(query_profile, row, loci) ==
    SelectSeq(loci, LAMBDA l : /\ ~MissingCell(QueryGet(query_profile, l, Text(<<"">>)))
                               /\ ~MissingCell(row[l]))

\* The record of a row when only the loci of present are compared, with
\* inconclusive_loci set to missing.
RecordOver(impl, query_profile, row, present, missing) ==
    [(IF impl = "mhngar"
      THEN mh_record(query_profile, row, cache_allele_freqs[1], present)
      ELSE ps_candidate(row.PersonID, ps_row_results(query_profile, row, present)))
     EXCEPT !.inconclusive_loci = missing]

\* C10: in mhngar and participant_solution, the loci where the query or the
\* candidate is "-", empty or NaN change nothing in a candidate's record
\* but inconclusive_loci: the record is the one the other loci alone give
\* (same clr, consistent_loci and mutated_loci), and inconclusive_loci is
\* the number of those loci.
C10_MissingLocusIsNeutral ==
    (Returned /\ call.impl \in {"mhngar", "participant"}) =>
        \A k \in DOMAIN call.scored :
            \E row \in {RowOf(call.db[1], call.scored[k].person_id)} :
                \E present \in {PresentLoci(call.query[1], row, LocusColumns(call.db[1]))} :
                    call.scored[k] =
                        RecordOver(call.impl, call.query[1], row, present,
                                   Len(LocusColumns(call.db[1])) - Len(present))

\* A call of mhngar that scored a candidate with a missing locus and a
\* consistent one.
C10_Witness ==
    /\ call.impl = "mhngar"
    /\ \E k \in DOMAIN call.scored :
           /\ call.scored[k].inconclusive_loci > 0
           /\ call.scored[k].consistent_loci > 0
           /\ \E l \in Range(LocusColumns(call.db[1])) :
                  MissingCell(RowOf(call.db[1], call.scored[k].person_id)[l])

(***************************************************************************)
(* compute_locus_lr on its own (SpecLocus): the arguments are drawn in the *)
(* initial state and the function is applied to them.                      *)
(***************************************************************************)

AlleleSets ==
    LET \* Allele strings: whole repeats, microvariants a repeat apart, and one
        \* that float() rejects.
        LocusAlleles == {"9", "9.3", "10", "10.3", "31.2", "32.2", "x"}
    IN  {S \in SUBSET LocusAlleles : Cardinality(S) <= MaxAlleles}

\* The locus's frequency table (in millionths): none, or one with a common
\* and two rare alleles.
LocusFreqs == {EmptyDict, ("9" :> 250000) @@ ("10" :> 500) @@ ("32.2" :> 50)}

InitLocus ==
    /\ heap = [h \in AllHandles |-> None]
    /\ hashSeed \in {0, 1}
    /\ cache_db_hash = None
    /\ cache_allele_freqs = None
    /\ cache_inverted_index = None
    /\ DB_CACHE = EmptyDict
    /\ \E child \in AlleleSets, parent \in AlleleSets, freqs \in LocusFreqs :
           call = [NoCall EXCEPT !.impl = "args",
                                 !.query = Some([child_alleles |-> child,
                                                 parent_alleles |-> parent,
                                                 allele_freqs |-> freqs])]
    /\ threads = [t \in Threads |-> IdleThread]

\* compute_locus_lr(child_alleles, parent_alleles, allele_freqs)
ComputeLocusLr ==
    /\ call.impl = "args"
    /\ call' = [call EXCEPT !.impl = "compute_locus_lr",
                            !.records = <<compute_locus_lr(call.query[1].child_alleles,
                                                           call.query[1].parent_alleles,
                                                           call.query[1].allele_freqs)>>]
    /\ UNCHANGED <<heap, hashSeed, cache_db_hash, cache_allele_freqs, cache_inverted_index,
                   DB_CACHE, threads>>

NextLocus == ComputeLocusLr

SpecLocus == InitLocus /\ [][NextLocus]_vars

\* Two allele strings that are numbers one repeat apart.
OneRepeatApart(a, b) ==
    /\ a \in DOMAIN FloatTable
    /\ b \in DOMAIN FloatTable
    /\ Abs(FloatTable[a] - FloatTable[b]) = 10

\* The status the priority rule gives a pair of allele sets.
StatusByPriority(child, parent) ==
    IF child = {} \/ parent = {} THEN "missing"
    ELSE IF child \cap parent # {} THEN "consistent"
    ELSE IF \E c \in child, p \in parent : OneRepeatApart(c, p) THEN "mutation"
    ELSE "exclusion"

\* C9: for allele sets of cardinality 0, 1 or 2, compute_locus_lr returns the
\* status of the priority rule: missing iff either set is empty; otherwise
\* consistent iff the sets intersect; otherwise mutation iff some child
\* allele and some parent allele differ by one repeat; otherwise exclusion.
C9_StatusByPriority ==
    call.impl = "compute_locus_lr" =>
        call.records[1][2] = StatusByPriority(call.query[1].child_alleles,
                                              call.query[1].parent_alleles)

\* ---------------------------------------------------------------------
\* One locus of one query against one locus of one candidate row, by the
\* comparator of mhngar and by the comparator of the participant solution.

\* The cell values compared.
CellPool ==
    {NaN, Text(<<"-">>), Text(<<"">>), Text(<<"13">>), Text(<<"14">>), Text(<<"15">>),
     Text(<<"13", "14">>), Text(<<"13", "15">>), Text(<<"31.2">>), Text(<<"32.2">>),
     Text(<<"abc">>), Text(<<"13", "x">>), Text(<<"9">>), Text(<<"9.3">>)}

InitCells ==
    /\ heap = [h \in AllHandles |-> None]
    /\ hashSeed \in {0, 1}
    /\ cache_db_hash = None
    /\ cache_allele_freqs = None
    /\ cache_inverted_index = None
    /\ DB_CACHE = EmptyDict
    /\ \E q \in CellPool, c \in CellPool :
           call = [NoCall EXCEPT !.impl = "cells",
                                 !.query = Some([PersonID |-> "Q1", TH01 |-> q]),
                                 !.db = Some(MkDataFrame(<<"PersonID", "TH01">>, <<[TH01 |-> c]>>))]
    /\ threads = [t \in Threads |-> IdleThread]

\* mhngar: compute_locus_lr in both orientations and the record of the row.
CompareMhngar ==
    /\ call.impl = "cells"
    /\ call' = [call EXCEPT
          !.impl = "mhngar_locus",
          !.records =
              <<[locus |-> compute_locus_lr(
                               mh_parse_alleles(call.query[1].TH01),
                               mh_parse_alleles(call.db[1].rows[1].TH01),
                               mh_locus_freqs(compute_allele_frequencies(call.db[1]), "TH01")),
                 record |-> mh_record(call.query[1], call.db[1].rows[1],
                                      compute_allele_frequencies(call.db[1]), <<"TH01">>)]>>]
    /\ UNCHANGED <<heap, hashSeed, cache_db_hash, cache_allele_freqs, cache_inverted_index,
                   DB_CACHE, threads>>

\* participant: analyze_locus and the candidate dict of the row.
CompareParticipant ==
    /\ call.impl = "cells"
    /\ call' = [call EXCEPT
          !.impl = "participant_locus",
          !.records =
              <<[analysis |-> analyze_locus(call.query[1].TH01, call.db[1].rows[1].TH01, "TH01"),
                 record |-> ps_candidate(call.db[1].rows[1].PersonID,
                                ps_row_results(call.query[1], call.db[1].rows[1], <<"TH01">>))]>>]
    /\ UNCHANGED <<heap, hashSeed, cache_db_hash, cache_allele_freqs, cache_inverted_index,
                   DB_CACHE, threads>>

NextCells == CompareMhngar \/ CompareParticipant

SpecCells == InitCells /\ [][NextCells]_vars

\* The comparison of query cell q with candidate cell c is done by impl.
Compared(impl, q, c) ==
    /\ call.impl = impl
    /\ call.query[1].TH01 = Text(q)
    /\ call.db[1].rows[1].TH01 = Text(c)

C25_MutationOnlyOneRepeatApart ==
    (/\ call.impl = "participant_locus"
     /\ ~MissingCell(call.query[1].TH01)
     /\ ~MissingCell(call.db[1].rows[1].TH01)
     /\ ps_parse_alleles(call.query[1].TH01) \cap ps_parse_alleles(call.db[1].rows[1].TH01) = {})
        => call.records[1].analysis.type =
               IF \E q \in ps_parse_alleles(call.query[1].TH01),
                     c \in ps_parse_alleles(call.db[1].rows[1].TH01) : Abs(q - c) = 10
               THEN "mutation"
               ELSE "mismatch"

\* ---------------------------------------------------------------------
\* mhngar on a database of two rows that differ at TH01 only.

InitPair ==
    LET \* TH01 of the two rows; TPOX is the same in both.
        PairTH01 == {Text(<<"13", "17">>), Text(<<"15", "17">>), Text(<<"13">>), Text(<<"14">>),
                     Text(<<"15">>), Text(<<"16">>), Text(<<"13", "14">>), Text(<<"-">>)}
        PairTPOX == {Text(<<"8">>), Text(<<"8", "9">>), Text(<<"-">>)}
    IN  /\ \E a \in PairTH01, t \in PairTPOX : \E b \in PairTH01 \ {a} :
               heap = [h \in AllHandles |->
                          IF h = 1
                          THEN Some(MkDataFrame(Columns2, <<[TH01 |-> a, TPOX |-> t],
                                                            [TH01 |-> b, TPOX |-> t]>>))
                          ELSE None]
        /\ hashSeed \in {0, 1}
        /\ cache_db_hash = None
        /\ cache_allele_freqs = None
        /\ cache_inverted_index = None
        /\ DB_CACHE = EmptyDict
        /\ call = NoCall
        /\ threads = [t \in Threads |-> IdleThread]

NextPair ==
    \E th01 \in {Text(<<"13", "14">>), Text(<<"14">>)}, tpox \in {Text(<<"8">>), Text(<<"8", "9">>)} :
        MhngarMatchSingle(1, [PersonID |-> "Q1", TH01 |-> th01, TPOX |-> tpox])

SpecPair == InitPair /\ [][NextPair]_vars

\* The record returned for person_id, when there is one.
RecordsFor(person_id) == {call.records[i] : i \in {j \in DOMAIN call.records : call.records[j].person_id = person_id}}

\* The row shares an allele with the query at the locus.
SharesAllele(row, locus) ==
    mh_parse_alleles(call.query[1][locus]) \cap mh_parse_alleles(row[locus]) # {}

\* C12: of two returned candidates identical except at TH01, where the
\* first shares an allele with the query and the second does not, the first
\* has a CLR at least as large as the second.
C12_SharingCandidateNotLower ==
    (/\ call.impl = "mhngar" /\ call.raised = ""
     /\ call.db[1].rows[1].TPOX = call.db[1].rows[2].TPOX
     /\ SharesAllele(call.db[1].rows[1], "TH01")
     /\ ~SharesAllele(call.db[1].rows[2], "TH01"))
        => \A ra \in RecordsFor("P1"), rb \in RecordsFor("P2") : ra.clr >= rb.clr

\* C13: the list a call returns (identifiers, order and clr; the posterior
\* is a function of the clr) is the list the same call returns, on the same
\* cache, when the sets of strings iterate in the other order.
C13_SameListUnderEitherSetOrder ==
    (call.impl = "mhngar" /\ call.raised = "")
        => call.records =
               mh_match_cached(call.query[1], call.db[1],
                               [hash |-> cache_db_hash, freqs |-> cache_allele_freqs,
                                index |-> cache_inverted_index, built |-> {}],
                               1 - hashSeed).records

\* ---------------------------------------------------------------------
\* The posterior of mhngar as a function of the clr.

InitPosterior ==
    LET \* 1000 * log10 of the clr values tried, from six exclusions to twenty
        \* loci of ratio 10.
        ClrPool == {-36000, -6000, -1000, 0, 301, 1415, 5000, 12000, 15000, 16256, 17000, 20000}
    IN  /\ heap = [h \in AllHandles |-> None]
        /\ hashSeed \in {0, 1}
        /\ cache_db_hash = None
        /\ cache_allele_freqs = None
        /\ cache_inverted_index = None
        /\ DB_CACHE = EmptyDict
        /\ \E lower \in ClrPool, upper \in ClrPool :
               call = [NoCall EXCEPT !.impl = "clr", !.query = Some([lower |-> lower, upper |-> upper])]
        /\ threads = [t \in Threads |-> IdleThread]

\* Lines 575-577 applied to each clr.
ComputePosterior ==
    /\ call.impl = "clr"
    /\ call' = [call EXCEPT !.impl = "posterior",
                            !.records = <<mh_posterior(call.query[1].lower),
                                          mh_posterior(call.query[1].upper)>>]
    /\ UNCHANGED <<heap, hashSeed, cache_db_hash, cache_allele_freqs, cache_inverted_index,
                   DB_CACHE, threads>>

NextPosterior == ComputePosterior

SpecPosterior == InitPosterior /\ [][NextPosterior]_vars

\* C14: the posterior of a finite positive clr lies strictly between 0 and
\* 1, and of two clr the larger has the strictly larger posterior.
C14_PosteriorStrictlyIncreasingInside ==
    call.impl = "posterior"
        => /\ \A i \in 1..2 : call.records[i] # Inf /\ call.records[i] # -Inf
           /\ call.query[1].lower < call.query[1].upper => call.records[1] < call.records[2]

\* ---------------------------------------------------------------------
\* The participant solution on databases of one to twenty-three locus
\* columns.

\* The four loci of the frequency table and nineteen further marker columns.
ColumnsWide ==
    <<"PersonID", "TH01", "TPOX", "CSF1PO", "D5S818", "M05", "M06", "M07", "M08", "M09", "M10",
      "M11", "M12", "M13", "M14", "M15", "M16", "M17", "M18", "M19", "M20", "M21", "M22", "M23">>

InitWide ==
    LET \* A row with the same reading at every locus: against the query 13,14 it is
        \* partial, identical, a repeat away or missing everywhere.
        WideCells == {Text(<<"13", "15">>), Text(<<"13", "14">>), Text(<<"15">>), Text(<<"-">>)}
        WideFrame(n, cells) ==
            MkDataFrame(Prefix(ColumnsWide, n + 1),
                        [i \in DOMAIN cells |-> [c \in Range(Prefix(ColumnsWide, n + 1)) |-> cells[i]]])
    IN  /\ \E n \in 1..(Len(ColumnsWide) - 1), cells \in SeqsUpTo(WideCells, MaxRows) \ {<<>>} :
               heap = [h \in AllHandles |-> IF h = 1 THEN Some(WideFrame(n, cells)) ELSE None]
        /\ hashSeed \in {0, 1}
        /\ cache_db_hash = None
        /\ cache_allele_freqs = None
        /\ cache_inverted_index = None
        /\ DB_CACHE = EmptyDict
        /\ call = NoCall
        /\ threads = [t \in Threads |-> IdleThread]

NextWide ==
    ParticipantMatchSingle(1, [c \in Range(ColumnsWide) |->
                                  IF c = "PersonID" THEN "Q1" ELSE Text(<<"13", "14">>)])

SpecWide == InitWide /\ [][NextWide]_vars

\* C15: every record the participant solution returns has a posterior in
\* [0, 1].
C15_PosteriorInUnitInterval ==
    call.impl = "participant"
        => \A i \in DOMAIN call.records :
               /\ 0 <= call.records[i].posterior[1]
               /\ call.records[i].posterior[1] <= call.records[i].posterior[2]

\* ---------------------------------------------------------------------
\* The participant solution and mhngar on databases with a row that repeats
\* the query's genotype: one to MaxLoci locus columns.

InitTwin ==
    LET \* A row with the same reading at every locus: against the query 13,14 it is
        \* partial, identical, identical in the other order, homozygous, a repeat
        \* away or missing everywhere.
        TwinCells == {Text(<<"13", "15">>), Text(<<"13", "14">>), Text(<<"14", "13">>),
                      Text(<<"13">>), Text(<<"15">>), Text(<<"-">>)}
        TwinFrame(n, cells) ==
            MkDataFrame(Prefix(ColumnsWide, n + 1),
                        [i \in DOMAIN cells |-> [c \in Range(Prefix(ColumnsWide, n + 1)) |-> cells[i]]])
    IN  /\ \E n \in 1..MaxLoci, cells \in SeqsUpTo(TwinCells, MaxRows) \ {<<>>} :
               heap = [h \in AllHandles |-> IF h = 1 THEN Some(TwinFrame(n, cells)) ELSE None]
        /\ hashSeed \in {0, 1}
        /\ cache_db_hash = None
        /\ cache_allele_freqs = None
        /\ cache_inverted_index = None
        /\ DB_CACHE = EmptyDict
        /\ call = NoCall
        /\ threads = [t \in Threads |-> IdleThread]

\* A heterozygous and a homozygous query, answered by the participant
\* solution and by mhngar.
NextTwin ==
    \E q \in {Text(<<"13", "14">>), Text(<<"13">>)} :
        \/ ParticipantMatchSingle(1, [c \in Range(ColumnsWide) |-> IF c = "PersonID" THEN "Q1" ELSE q])
        \/ MhngarMatchSingle(1, [c \in Range(ColumnsWide) |-> IF c = "PersonID" THEN "Q1" ELSE q])

SpecTwin == InitTwin /\ [][NextTwin]_vars

\* The rows of the call's database whose genotype is the query's at every
\* locus, and those that share exactly one allele with the query at every
\* locus.
TwinRows ==
    {r \in 1..NRows(call.db[1]) :
        \A l \in Range(LocusColumns(call.db[1])) :
            /\ mh_parse_alleles(call.query[1][l]) # {}
            /\ mh_parse_alleles(call.db[1].rows[r][l]) = mh_parse_alleles(call.query[1][l])}

ParentRows ==
    {r \in 1..NRows(call.db[1]) :
        \A l \in Range(LocusColumns(call.db[1])) :
            /\ mh_parse_alleles(call.db[1].rows[r][l]) # mh_parse_alleles(call.query[1][l])
            /\ Cardinality(mh_parse_alleles(call.db[1].rows[r][l])
                               \cap mh_parse_alleles(call.query[1][l])) = 1}

\* The positions of row r in the returned list.
RankOf(r) == {k \in DOMAIN call.records : call.records[k].person_id = call.db[1].rows[r].PersonID}

\* C22: a candidate whose genotype is the query's at every locus, under
\* another identifier, is absent from the returned list or ranked below a
\* candidate that shares exactly one allele with the query at three or more
\* loci; also when every locus is homozygous, and when the row writes the
\* alleles in another order.
C22_TwinBelowParent ==
    (call.impl \in {"participant", "mhngar"} /\ call.raised = ""
         /\ Len(LocusColumns(call.db[1])) >= 3)
        => \A t \in TwinRows, p \in ParentRows :
               \A kt \in RankOf(t) : \E kp \in RankOf(p) : kp < kt

\* ---------------------------------------------------------------------
\* mhngar: prefilter_candidates under caps below the number of rows, and
\* match_single, on the databases of find_matches and on one whose two rows
\* have no allele of the queries nor one a repeat away.

\* The largest cap that prefilter_candidates is given directly.
MaxTopN == 3

InitPrefilter ==
    /\ \E df \in DataFrames4 \cup {MkDataFrame(Columns4, <<RowPool4[6], RowPool4[6]>>)} :
           heap = [h \in AllHandles |-> IF h = 1 THEN Some(df) ELSE None]
    /\ hashSeed \in {0, 1}
    /\ cache_db_hash = None
    /\ cache_allele_freqs = None
    /\ cache_inverted_index = None
    /\ DB_CACHE = EmptyDict
    /\ call = NoCall
    /\ threads = [t \in Threads |-> IdleThread]

\* prefilter_candidates(query_profile, database_df, inverted_index,
\* allele_freqs, top_n) on the index and the frequencies of database_df.
PrefilterCandidates(query_profile, top_n) ==
    /\ call = NoCall
    /\ \E r \in {prefilter_candidates(query_profile, heap[1][1], build_inverted_index(heap[1][1]),
                                       compute_allele_frequencies(heap[1][1]), top_n, hashSeed)} :
           call' = [impl |-> "prefilter_candidates", handle |-> 1, db |-> heap[1],
                    query |-> Some([query_profile |-> query_profile, top_n |-> top_n]),
                    raised |-> IF r.raised THEN "IndexError" ELSE "",
                    scored |-> <<>>, records |-> r.result, built |-> {}]
    /\ UNCHANGED <<heap, hashSeed, cache_db_hash, cache_allele_freqs, cache_inverted_index,
                   DB_CACHE, threads>>

\* The queries of find_matches and one that shares an allele with a single
\* profile of the pool, so that the fill loops run.
NextPrefilter ==
    \/ \E q \in Queries4 \cup {[PersonID |-> "Q1", TH01 |-> Text(<<"17">>), TPOX |-> Text(<<"-">>),
                                 CSF1PO |-> Text(<<"-">>), D5S818 |-> Text(<<"16">>)]},
          top_n \in 0..MaxTopN : PrefilterCandidates(q, top_n)
    \/ \E q \in Queries4 : MhngarMatchSingle(1, q)

SpecPrefilter == InitPrefilter /\ [][NextPrefilter]_vars

\* C16: prefilter_candidates returns at most top_n row indices, and a
\* match_single call on N rows makes at most min(5500, N) calls of
\* compute_clr_bidirectional (one per record scored).
C16_AtMostTopNCandidates ==
    /\ call.impl = "prefilter_candidates" => Len(call.records) <= call.query[1].top_n
    /\ call.impl = "mhngar" => Len(call.scored) <= Min2(TopNCap, NRows(call.db[1]))

\* The cap cuts: more rows than top_n share an allele with the query, and
\* exactly top_n come back.
C16_Witness ==
    /\ call.impl = "prefilter_candidates"
    /\ call.query[1].top_n = MaxTopN
    /\ call.query[1].query_profile.TPOX # Text(<<"-">>)
    /\ NRows(call.db[1]) = ManyRows
    /\ Len(call.records) = MaxTopN

\* C17: on a database of zero profiles compute_allele_frequencies and
\* build_inverted_index return empty structures, and every mhngar
\* match_single call returns an empty list without raising.
C17_EmptyDatabaseEmptyAnswer ==
    /\ \A h \in Handles :
           (heap[h] # None /\ NRows(heap[h][1]) = 0)
               => /\ compute_allele_frequencies(heap[h][1]) = EmptyDict
                  /\ build_inverted_index(heap[h][1]) = EmptyDict
    /\ (call.impl = "mhngar" /\ NRows(call.db[1]) = 0)
           => call.raised = "" /\ call.records = <<>>

\* The share of the profiles of the call's database that carry a value, in
\* millionths, floored at floor.
CarrierShare(carriers, floor) ==
    Max2((Cardinality(carriers) * 1000000) \div NRows(call.db[1]), floor)

\* C18: the table a call builds stores, per locus and allele seen there,
\* the number of profiles carrying the allele over the number of profiles,
\* floored at a fixed minimum (0.0001 for mhngar, 0.001 for AmiraliShadi),
\* and every stored frequency lies in (0, 1].
C18_FrequencyIsCarrierShare ==
    /\ (call.impl = "mhngar" /\ "compute_allele_frequencies" \in call.built)
           => \A l \in DOMAIN cache_allele_freqs[1] : \A a \in DOMAIN cache_allele_freqs[1][l] :
                  /\ cache_allele_freqs[1][l][a] = CarrierShare(mh_rows_with(call.db[1], l, a), 100)
                  /\ 0 < cache_allele_freqs[1][l][a] /\ cache_allele_freqs[1][l][a] <= 1000000
    /\ (call.impl = "amirali" /\ "build" \in call.built)
           => \A i \in DOMAIN DB_CACHE.freqs : \A v \in DOMAIN DB_CACHE.freqs[i] :
                  /\ DB_CACHE.freqs[i][v] =
                         CarrierShare({r \in DOMAIN DB_CACHE.tensor : v \in Range(DB_CACHE.tensor[r][i])}, 1000)
                  /\ 0 < DB_CACHE.freqs[i][v] /\ DB_CACHE.freqs[i][v] <= 1000000

\* C19: a locus value with no parseable numeric allele ("abc"), on either
\* side, is compared as missing data: status missing with a neutral
\* contribution, counted inconclusive; and "13,x" is compared as "13".
C19_UnparseableIsMissing ==
    /\ (call.impl = "mhngar_locus"
            /\ Text(<<"abc">>) \in {call.query[1].TH01, call.db[1].rows[1].TH01})
           => /\ call.records[1].locus = <<0, "missing">>
              /\ call.records[1].record.inconclusive_loci = 1
    /\ (call.impl = "participant_locus"
            /\ Text(<<"abc">>) \in {call.query[1].TH01, call.db[1].rows[1].TH01})
           => /\ call.records[1].analysis = [type |-> "missing", score |-> 0]
              /\ call.records[1].record.inconclusive_loci = 1
    /\ (call.impl = "mhngar_locus" /\ call.query[1].TH01 = Text(<<"13", "x">>))
           => call.records[1].record =
                  mh_record([call.query[1] EXCEPT !.TH01 = Text(<<"13">>)], call.db[1].rows[1],
                            compute_allele_frequencies(call.db[1]), <<"TH01">>)
    /\ (call.impl = "participant_locus" /\ call.query[1].TH01 = Text(<<"13", "x">>)
            /\ ~ps_missing(call.db[1].rows[1].TH01))
           => call.records[1].analysis.score =
                  analyze_locus(Text(<<"13">>), call.db[1].rows[1].TH01, "TH01").score

\* The loci of the call's database at which a returned record is neither
\* consistent, mutated nor inconclusive: its exclusions or mismatches.
ExclusionsOf(record) ==
    Len(LocusColumns(call.db[1]))
        - (record.consistent_loci + record.mutated_loci + record.inconclusive_loci)

\* C20: no returned record has more than 2 exclusions or mismatches,
\* whichever implementation answered, and none returned by the participant
\* solution has fewer than 3 consistent loci.
C20_ReturnedAreAdmissible ==
    (call.impl \in {"mhngar", "amirali", "participant"} /\ call.raised = "")
        => \A i \in DOMAIN call.records :
               /\ ExclusionsOf(call.records[i]) <= 2
               /\ call.impl = "participant" => call.records[i].consistent_loci >= 3

\* ---------------------------------------------------------------------
\* mhngar: compute_clr_bidirectional on its own, for one query against the
\* two rows of a database of one to MaxLoci locus columns.

InitClr ==
    LET \* The reading of a row at its first loci, and at the others.
        FirstCells == {Text(<<"13", "14">>), Text(<<"14">>)}
        RestCells == {Text(<<"13", "15">>), Text(<<"13">>), Text(<<"15">>), Text(<<"17">>),
                      Text(<<"-">>)}
        \* Row i reads first at its k[i] first loci of n.
        ClrRows(n, k, first, rest) ==
            [i \in DOMAIN k |-> [c \in Range(SubSeq(ColumnsWide, 2, n + 1)) |->
                                    IF c \in Range(SubSeq(ColumnsWide, 2, k[i] + 1)) THEN first ELSE rest]]
    IN  /\ heap = [h \in AllHandles |-> None]
        /\ hashSeed \in {0, 1}
        /\ cache_db_hash = None
        /\ cache_allele_freqs = None
        /\ cache_inverted_index = None
        /\ DB_CACHE = EmptyDict
        /\ \E n \in 1..MaxLoci, first \in FirstCells, rest \in RestCells, q \in FirstCells :
               \E k \in [1..2 -> 0..n] :
                   call = [NoCall EXCEPT
                              !.impl = "rows",
                              !.query = Some([c \in Range(ColumnsWide) |->
                                                 IF c = "PersonID" THEN "Q1" ELSE q]),
                              !.db = Some(MkDataFrame(Prefix(ColumnsWide, n + 1),
                                                      ClrRows(n, k, first, rest)))]
        /\ threads = [t \in Threads |-> IdleThread]

\* compute_clr_bidirectional(query_profile, candidate_row, allele_freqs,
\* locus_columns) for each row, on the frequencies of the database: what
\* the loop computes at each locus in the two directions (lines 246-249 and
\* 261-264), and what the function returns.
ComputeClrBidirectional ==
    /\ call.impl = "rows"
    /\ \E allele_freqs \in {compute_allele_frequencies(call.db[1])} :
       \E locus_columns \in {LocusColumns(call.db[1])} :
           call' = [call EXCEPT
              !.impl = "compute_clr_bidirectional",
              !.scored = List([r \in 1..NRows(call.db[1]) |->
                  [child |-> List([i \in DOMAIN locus_columns |->
                       compute_locus_lr(mh_parse_alleles(call.query[1][locus_columns[i]]),
                                        mh_parse_alleles(call.db[1].rows[r][locus_columns[i]]),
                                        mh_locus_freqs(allele_freqs, locus_columns[i]))]),
                   parent |-> List([i \in DOMAIN locus_columns |->
                       compute_locus_lr(mh_parse_alleles(call.db[1].rows[r][locus_columns[i]]),
                                        mh_parse_alleles(call.query[1][locus_columns[i]]),
                                        mh_locus_freqs(allele_freqs, locus_columns[i]))])]]),
              !.records = List([r \in 1..NRows(call.db[1]) |->
                              compute_clr_bidirectional(call.query[1], call.db[1].rows[r],
                                                        allele_freqs, locus_columns)])]
    /\ UNCHANGED <<heap, hashSeed, cache_db_hash, cache_allele_freqs, cache_inverted_index,
                   DB_CACHE, threads>>

NextClr == ComputeClrBidirectional

SpecClr == InitClr /\ [][NextClr]_vars

\* The alleles of the query and of row r at a locus.
QueryAt(locus) == mh_parse_alleles(call.query[1][locus])

RowAt(r, locus) == mh_parse_alleles(call.db[1].rows[r][locus])

\* The <<log_LR, status>> of each locus for row r in one orientation: the
\* query as child ("candidate_parent") or as parent ("candidate_child").
Oriented(r, role) ==
    IF role = "candidate_parent" THEN call.scored[r].child ELSE call.scored[r].parent

\* The total log-likelihood of an orientation before any penalty.
TotalOf(r, role) == SumSeq([i \in DOMAIN Oriented(r, role) |-> Oriented(r, role)[i][1]])

CountOf(r, role, status) ==
    Cardinality({i \in DOMAIN Oriented(r, role) : Oriented(r, role)[i][2] = status})

\* The loci where neither side is missing, and those among them where both
\* alleles of the query are the candidate's.
NonMissing(r) ==
    Cardinality({l \in Range(LocusColumns(call.db[1])) : QueryAt(l) # {} /\ RowAt(r, l) # {}})

BothMatch(r) ==
    Cardinality({l \in Range(LocusColumns(call.db[1])) :
                    Cardinality(QueryAt(l)) = 2 /\ QueryAt(l) = RowAt(r, l)})

AboveThreshold(r) == NonMissing(r) > 0 /\ 100 * BothMatch(r) > 16 * NonMissing(r)

\* What the returned clr lacks from the total of the orientation returned.
PenaltyOf(r) == TotalOf(r, call.records[r].role) - call.records[r].clr

\* C21: for every pair whose share of non-missing loci with both alleles
\* matching exceeds 0.16 a penalty is subtracted from the totals, and of two
\* such pairs the one with the larger share has at least the penalty of the
\* other.
C21_PenaltyAboveThreshold ==
    call.impl = "compute_clr_bidirectional"
        => \A r \in DOMAIN call.records :
               AboveThreshold(r)
                   => /\ PenaltyOf(r) > 0
                      /\ \A s \in DOMAIN call.records :
                             (AboveThreshold(s)
                                  /\ BothMatch(r) * NonMissing(s) <= BothMatch(s) * NonMissing(r))
                                 => PenaltyOf(r) <= PenaltyOf(s)

\* The penalty of lines 278-288 for row r: from six non-missing loci on,
\* min(3.8, (share - 0.16) * 20.0) above the threshold; with five or fewer
\* nothing is subtracted at any share.
PenaltyByRule(r) ==
    IF NonMissing(r) > 5 /\ AboveThreshold(r)
    THEN Min2(3800, (20000 * BothMatch(r)) \div NonMissing(r) - 3200)
    ELSE 0

\* The sibling test as the code applies it.
PenaltyFromSixLoci ==
    call.impl = "compute_clr_bidirectional"
        => \A r \in DOMAIN call.records : PenaltyOf(r) = PenaltyByRule(r)

OtherRole(role) == IF role = "candidate_parent" THEN "candidate_child" ELSE "candidate_parent"

\* The stated rule lets row r be answered in the orientation role: within
\* the margin the first of exclusions, consistent loci and mutations that
\* differs decides; otherwise, and when all three are tied, the total does.
RuleAllows(r, role) ==
    IF /\ Abs(TotalOf(r, role) - TotalOf(r, OtherRole(role))) < 2500
       /\ CountOf(r, role, "exclusion") # CountOf(r, OtherRole(role), "exclusion")
    THEN CountOf(r, role, "exclusion") < CountOf(r, OtherRole(role), "exclusion")
    ELSE IF /\ Abs(TotalOf(r, role) - TotalOf(r, OtherRole(role))) < 2500
            /\ CountOf(r, role, "consistent") # CountOf(r, OtherRole(role), "consistent")
    THEN CountOf(r, role, "consistent") > CountOf(r, OtherRole(role), "consistent")
    ELSE IF /\ Abs(TotalOf(r, role) - TotalOf(r, OtherRole(role))) < 2500
            /\ CountOf(r, role, "mutation") # CountOf(r, OtherRole(role), "mutation")
    THEN CountOf(r, role, "mutation") < CountOf(r, OtherRole(role), "mutation")
    ELSE TotalOf(r, role) >= TotalOf(r, OtherRole(role))

\* C23: compute_clr_bidirectional returns the clr and the locus counts of
\* the orientation with the higher total; when the totals differ by less
\* than 2.5 the orientation is decided by fewer exclusions, then more
\* consistent loci, then fewer mutations, and by the higher total when all
\* three are tied.
C23_OrientationByRule ==
    call.impl = "compute_clr_bidirectional"
        => \A r \in DOMAIN call.records :
               \E role \in {"candidate_parent", "candidate_child"} :
                   /\ RuleAllows(r, role)
                   /\ call.records[r].clr = TotalOf(r, role) - PenaltyByRule(r)
                   /\ call.records[r].consistent = CountOf(r, role, "consistent")
                   /\ call.records[r].mutated = CountOf(r, role, "mutation")
                   /\ call.records[r].missing = CountOf(r, role, "missing")

\* The totals of a row differ by less than the margin, and the answer is
\* that of the query as parent, the higher.
C23_Witness ==
    /\ call.impl = "compute_clr_bidirectional"
    /\ \E r \in DOMAIN call.records :
           /\ TotalOf(r, "candidate_child") > TotalOf(r, "candidate_parent")
           /\ TotalOf(r, "candidate_child") - TotalOf(r, "candidate_parent") < 2500
           /\ call.records[r].role = "candidate_child"
           /\ call.records[r].clr = TotalOf(r, "candidate_child") - PenaltyByRule(r)

\* C26: at every locus compute_locus_lr gives the two orientations the same
\* status, so the consistent, mutated, missing and exclusion counts of the
\* two orientations are equal, no tie-break on counts decides, and the clr
\* returned is that of the larger of the two totals.
C26_StatusFreeOfOrientation ==
    call.impl = "compute_clr_bidirectional"
        => \A r \in DOMAIN call.records :
               /\ \A i \in DOMAIN LocusColumns(call.db[1]) :
                      Oriented(r, "candidate_parent")[i][2] = Oriented(r, "candidate_child")[i][2]
               /\ \A status \in {"consistent", "mutation", "missing", "exclusion"} :
                      CountOf(r, "candidate_parent", status) = CountOf(r, "candidate_child", status)
               /\ call.records[r].clr + PenaltyByRule(r)
                      = Max2(TotalOf(r, "candidate_parent"), TotalOf(r, "candidate_child"))

\* A row a repeat away from the query at a locus, with totals that differ
\* between the orientations.
C26_Witness ==
    /\ call.impl = "compute_clr_bidirectional"
    /\ \E r \in DOMAIN call.records :
           /\ CountOf(r, "candidate_parent", "mutation") > 0
           /\ CountOf(r, "candidate_parent", "consistent") > 0
           /\ TotalOf(r, "candidate_parent") # TotalOf(r, "candidate_child")

\* ---------------------------------------------------------------------
\* ali-sefidmouy alone, on the two-locus DataFrames.

\* ali-sefidmouy: match_single(query_profile, database_df).
AliMatchSingle(h, query_profile) ==
    /\ heap[h] # None
    /\ \E r \in {ali_match_single(query_profile, heap[h][1])} :
           call' = [impl |-> "ali-sefidmouy", handle |-> h, db |-> heap[h],
                    query |-> Some(query_profile), raised |-> "",
                    scored |-> r.scored, records |-> r.records, built |-> {}]
    /\ UNCHANGED <<heap, hashSeed, cache_db_hash, cache_allele_freqs, cache_inverted_index,
                   DB_CACHE, threads>>

NextAli ==
    \/ \E h \in Handles, df \in DataFrames2 : LoadDataFrame(h, df)
    \/ \E h \in Handles, df \in DataFrames2 : MutateInPlace(h, df)
    \/ \E h \in Handles : Discard(h)
    \/ \E h \in Handles, q \in Queries2 : AliMatchSingle(h, q)

SpecAli == Init /\ [][NextAli]_vars

\* C24: in every record ali-sefidmouy returns, a locus where the query or
\* the candidate is "-" is inconclusive and not consistent: consistent_loci
\* and the clr count only loci where neither side is "-", and
\* inconclusive_loci counts every locus where a side is "-".
C24_MissingNeverConsistent ==
    call.impl = "ali-sefidmouy"
        => \A k \in DOMAIN call.records :
               /\ call.records[k].consistent_loci
                      <= Len(PresentLoci(call.query[1], RowOf(call.db[1], call.records[k].person_id),
                                         LocusColumns(call.db[1])))
               /\ call.records[k].clr
                      <= Len(PresentLoci(call.query[1], RowOf(call.db[1], call.records[k].person_id),
                                         LocusColumns(call.db[1])))
               /\ call.records[k].inconclusive_loci
                      >= Len(LocusColumns(call.db[1]))
                             - Len(PresentLoci(call.query[1],
                                               RowOf(call.db[1], call.records[k].person_id),
                                               LocusColumns(call.db[1])))

\* The rows of the call's database under another PersonID than the query's.
OtherRows == {r \in 1..NRows(call.db[1]) : call.db[1].rows[r].PersonID # call.query[1].PersonID}

\* C27: on a single database, with the cache built from it, mhngar's
\* match_single returns exactly min(10, M) records, M being the number of
\* rows under another PersonID than the query's; so it returns a record
\* whenever M >= 1, even when no row shares an allele with the query or has
\* one a repeat away.
C27_ReturnsMinTenOrAllOthers ==
    call.impl = "mhngar"
        => /\ call.raised = ""
           /\ Len(call.records) = Min2(TopK, Cardinality(OtherRows))
           /\ \A k \in DOMAIN call.records : call.records[k].person_id # call.query[1].PersonID

\* No row of the call's database has an allele of the query at a locus, nor
\* one a repeat away.
NothingShared ==
    \A r \in 1..NRows(call.db[1]), l \in Range(LocusColumns(call.db[1])) :
        \A q \in mh_parse_alleles(call.query[1][l]), c \in mh_parse_alleles(call.db[1].rows[r][l]) :
            q # c /\ ~check_mutation(q, c)

\* A call on rows that have nothing of the query returns them all.
C27_Witness ==
    /\ call.impl = "mhngar"
    /\ call.query[1].TPOX # Text(<<"-">>)
    /\ NothingShared
    /\ Cardinality(OtherRows) = 2
    /\ Len(call.records) = 2

\* C28: in every record AmiraliShadi returns, a locus is counted in at most
\* one of consistent_loci, mutated_loci and inconclusive_loci: their sum
\* does not exceed the number of locus columns, whatever the cells of the
\* database, one whose first token is not a number and whose second is
\* ("x,9") included.
C28_CountsWithinLoci ==
    (call.impl = "amirali" /\ call.raised = "")
        => \A k \in DOMAIN call.records :
               call.records[k].consistent_loci + call.records[k].mutated_loci
                   + call.records[k].inconclusive_loci <= Len(LocusColumns(call.db[1]))

====
